---------------------------- MODULE Spec2Model ----------------------------
(***************************************************************************)
(* Ghost-worker detection system: the biometric similarity, duplicate      *)
(* detection, verification and fraud-analysis core                         *)
(* (src/utils/biometric_matcher.py, src/utils/fraud_detection.py) and the  *)
(* request handlers of src/app.py that call it.                            *)
(*                                                                         *)
(* Conventions.                                                            *)
(*  - A Python float score is modelled as an exact rational in lowest      *)
(*    terms, [num |-> n, den |-> d]: 100.0 is [num |-> 100, den |-> 1].    *)
(*  - A name is a sequence of characters; "A" is the upper case of "a" and *)
(*    " " is white space.                                                  *)
(*  - A biometric template or hash is a record with a kind: "none"         *)
(*    (Python's None), "empty" (the empty string), "vec" (the JSON text of *)
(*    a face encoding) or "hash" (a hex digest).  A dict is a function     *)
(*    whose DOMAIN is its set of keys, and d.get(k) is Get(d, k).          *)
(*  - A national ID is a number, 0 standing for an absent (None or empty)  *)
(*    one; an absent name is the empty sequence.                           *)
(*  - A vector template's coordinates and all distances are counted in     *)
(*    hundredths (a distance of 0.6 is 60), so that (1.0 - distance) * 100 *)
(*    is 100 - distance.                                                   *)
(*  - Dates are counted in whole days, relative to the day of the call.    *)
(***************************************************************************)
EXTENDS Integers, Sequences, FiniteSets, TLC

VARIABLES
    FACE_RECOGNITION_AVAILABLE,  \* biometric_matcher.py:12-16, fixed at import
    pc,                          \* a function call: "call", then "done"; the application:
                                 \* "idle", then the handler of the last request
    name1, name2, name_sim,      \* a call of calculate_name_similarity
    template1, template2, image_sim,  \* a call of calculate_image_similarity
    new_employee_data, existing_employees, duplicates,  \* a call of detect_duplicate
    submitted_data, stored_template, verify_result,     \* a call of verify_biometric
    employees, attendance_logs, days_threshold, now,    \* a call of detect_ghost_workers
    ghost_workers,
    benefit_claims, time_window_hours, suspicious_claims,  \* a call of detect_duplicate_claims
    unusual_patterns,                        \* the result of detect_unusual_patterns
    analyzed_employee, risk,                 \* a call of analyze_employee_risk
    db_employees, db_templates, db_alerts,   \* the tables Employee, BiometricTemplate, DuplicateAlert
    db_attendance,                           \* the table AttendanceLog
    request, response,                       \* the last request handled by app.py and its response
    registrations                            \* the registration requests being handled at once

nameVars   == <<name1, name2, name_sim>>
imageVars  == <<template1, template2, image_sim>>
detectVars == <<new_employee_data, existing_employees, duplicates>>
verifyVars == <<submitted_data, stored_template, verify_result>>
ghostVars  == <<employees, attendance_logs, days_threshold, now, ghost_workers>>
fraudVars  == <<benefit_claims, time_window_hours, suspicious_claims, unusual_patterns,
                analyzed_employee, risk>>
dbVars     == <<db_employees, db_templates, db_alerts, db_attendance>>
appVars    == <<dbVars, request, response, registrations>>
vars == <<FACE_RECOGNITION_AVAILABLE, pc, nameVars, imageVars, detectVars, verifyVars,
          ghostVars, fraudVars, appVars>>

\* The value of a variable that the specification at hand does not use.
Unused == "unused"

---------------------------------------------------------------------------
(* Bounds of the model *)

\* Longest name drawn for calculate_name_similarity.
MaxNameLen == 3
\* Largest population handed to detect_duplicate.
MaxPopulation == 2
\* Most attendance records handed to detect_ghost_workers.
MaxLogs == 2
\* Most employees registered through /api/register.
MaxEmployees == 2
\* Most benefit claims handed to detect_duplicate_claims.
MaxClaims == 3
\* Most benefit claims and most duplicate alerts handed to
\* analyze_employee_risk, and the 12-hour steps its clock is advanced by.
MaxRiskClaims == 6
MaxAlerts == 2
MaxClockSteps == 1
\* Most registration requests handled at the same time, and most check-ins
\* recorded (MaxLogs).
MaxRequests == 2

---------------------------------------------------------------------------
(* Arithmetic on scores *)

Max(a, b) == IF a >= b THEN a ELSE b
Min(a, b) == IF a <= b THEN a ELSE b

RECURSIVE GCD(_, _)
GCD(a, b) == IF b = 0 THEN a ELSE GCD(b, a % b)

\* The float n / d, n >= 0, d > 0.
Rat(n, d) == LET g == GCD(n, d) IN [num |-> n \div g, den |-> d \div g]

RatLT(x, y) == x.num * y.den < y.num * x.den
RatLE(x, y) == x.num * y.den <= y.num * x.den
RatGT(x, y) == RatLT(y, x)
RatAdd(x, y) == Rat(x.num * y.den + y.num * x.den, x.den * y.den)
RatDivInt(x, k) == Rat(x.num, x.den * k)

---------------------------------------------------------------------------
(* calculate_name_similarity, biometric_matcher.py:102-138 *)

Chars == {"a", "b", "A", " "}
Names == UNION {[1..n -> Chars] : n \in 0..MaxNameLen}

\* str.lower() on one character.
LowerChar(c) == IF c = "A" THEN "a" ELSE c
Lower(s) == [i \in 1..Len(s) |-> LowerChar(s[i])]

IsSpace(c) == c = " "

\* str.strip(): drop the leading and the trailing white space.
RECURSIVE LStrip(_)
LStrip(s) == IF s # <<>> /\ IsSpace(Head(s)) THEN LStrip(Tail(s)) ELSE s
RECURSIVE RStrip(_)
RStrip(s) ==
    IF s # <<>> /\ IsSpace(s[Len(s)]) THEN RStrip(SubSeq(s, 1, Len(s) - 1)) ELSE s
Strip(s) == RStrip(LStrip(s))

\* name.lower().strip(), lines 107-108.
NormalizeName(name) == Strip(Lower(name))

\* A substitution that always costs 1, equal characters included.
SubstitutionCost_AlwaysOne(c1, c2) == 1

\* cost, line 127.
SubstitutionCost(c1, c2) == IF c1 = c2 THEN 0 ELSE 1

\* One row of the matrix, filled left to right as the inner loop of lines
\* 126-132 does: row holds matrix[i][0..j-1], prev is matrix[i-1].
\* (A row is a sequence, so matrix[i][j] is at position j + 1.)
RECURSIVE FillRow(_, _, _, _, _)
FillRow(prev, row, i, s, t) ==
    LET j == Len(row)
    IN  IF j > Len(t) THEN row
        ELSE FillRow(prev,
                     Append(row,
                            Min(Min(prev[j + 1] + 1,      \* deletion
                                    row[j] + 1),          \* insertion
                                prev[j] + SubstitutionCost(s[i], t[j]))), \* substitution
                     i, s, t)

\* The rows 0..upto of the matrix, lines 118-132: row 0 is 0..len2 (line
\* 123), every row starts with its index (line 121).
RECURSIVE MatrixRows(_, _, _)
MatrixRows(upto, s, t) ==
    IF upto = 0 THEN <<[k \in 1..(Len(t) + 1) |-> k - 1]>>
    ELSE LET above == MatrixRows(upto - 1, s, t)
         IN  Append(above, FillRow(above[upto], <<upto>>, upto, s, t))

\* distance = matrix[len1][len2], line 134.
LevenshteinDistance(s, t) == MatrixRows(Len(s), s, t)[Len(s) + 1][Len(t) + 1]

\* The similarity taken relative to the first name's length, not the longer one.
SimilarityFromDistance_FirstLen(distance, len1, len2) ==
    Rat(Max(len1 - distance, 0) * 100, len1)

\* similarity from the distance, lines 134-136.
SimilarityFromDistance(distance, len1, len2) ==
    LET max_len == Max(len1, len2)
    IN  Rat((max_len - distance) * 100, max_len)

calculate_name_similarity(n1, n2) ==
    LET a == NormalizeName(n1)
        b == NormalizeName(n2)
        len1 == Len(a)
        len2 == Len(b)
    IN  IF a = b THEN Rat(100, 1)
        ELSE IF len1 = 0 \/ len2 = 0 THEN Rat(0, 1)
        ELSE SimilarityFromDistance(LevenshteinDistance(a, b), len1, len2)

---------------------------------------------------------------------------
(* Templates, image_to_hash and calculate_image_similarity,                *)
(* biometric_matcher.py:23-100                                             *)

NoTemplate    == [kind |-> "none"]
EmptyTemplate == [kind |-> "empty"]
VecTemplate(v)  == [kind |-> "vec", v |-> v]
HashTemplate(h) == [kind |-> "hash", h |-> h]

\* Python truthiness of a template: None and "" are false.
Truthy(t) == t.kind \notin {"none", "empty"}

\* Face encodings, in hundredths.  They lie on one line of direction (3, 4),
\* so that every Euclidean distance between two of them is a whole number of
\* hundredths: 0, 10, 15, 30, 45, 50, 60, 85, 100, 120, ...
Encodings ==
    {<<0, 0>>, <<6, 8>>, <<9, 12>>, <<18, 24>>, <<36, 48>>, <<60, 80>>, <<72, 96>>}
\* A SHA-256 digest is named by what was hashed: the bit string of a raster
\* (line 57) or a data string (generate_biometric_hash, line 21).
Digests == {<<"bits", 1>>, <<"bits", 2>>}

VecTemplates  == {VecTemplate(v) : v \in Encodings}
HashTemplates == {HashTemplate(h) : h \in Digests}
Templates == {NoTemplate, EmptyTemplate} \cup VecTemplates \cup HashTemplates

\* An image: whether its bytes decode, the faces the extractor finds in it
\* (their encodings, in order), and the bit string of its 64x64 thresholded
\* raster.  NoPhoto is an absent photo_data.
NoPhoto == [kind |-> "none"]
Image(decodes, faces, bits) ==
    [kind |-> "image", decodes |-> decodes, faces |-> faces, bits |-> bits]
Images ==
    {Image(FALSE, <<>>, 1),
     Image(TRUE, <<>>, 1),
     Image(TRUE, <<<<0, 0>>>>, 1),
     Image(TRUE, <<<<6, 8>>, <<60, 80>>>>, 1),
     Image(TRUE, <<<<18, 24>>>>, 2),
     Image(TRUE, <<<<60, 80>>>>, 2)}

\* generate_biometric_hash, lines 19-21
generate_biometric_hash(data_string) == HashTemplate(<<"data", data_string>>)

\* image_to_hash, lines 23-61.  An image that does not decode raises inside
\* the try block and yields None.
image_to_hash(image_data) ==
    IF ~image_data.decodes THEN NoTemplate
    ELSE IF FACE_RECOGNITION_AVAILABLE
         THEN IF Len(image_data.faces) > 0
              THEN VecTemplate(image_data.faces[1])
              ELSE NoTemplate
         ELSE HashTemplate(<<"bits", image_data.bits>>)

RECURSIVE SqrtFrom(_, _)
SqrtFrom(n, r) == IF (r + 1) * (r + 1) > n THEN r ELSE SqrtFrom(n, r + 1)

RECURSIVE SumSquares(_, _)
SumSquares(u, v) ==
    IF u = <<>> THEN 0
    ELSE (Head(u) - Head(v)) * (Head(u) - Head(v)) + SumSquares(Tail(u), Tail(v))

\* np.linalg.norm(enc1 - enc2), line 80 (exact on Encodings).
Norm(enc1, enc2) == SqrtFrom(SumSquares(enc1, enc2), 0)

\* The percentage without the clamp at 0.
DistanceToSimilarity_NoClamp(distance) == Rat(100 - distance, 1)

\* max(0, (1.0 - distance) * 100), line 86.
DistanceToSimilarity(distance) == Rat(Max(0, 100 - distance), 1)

\* calculate_image_similarity, lines 63-100.  json.loads raises on a template
\* that is not the JSON text of an encoding, and the inner except returns 0.
calculate_image_similarity(t1, t2) ==
    IF ~Truthy(t1) \/ ~Truthy(t2) THEN Rat(0, 1)
    ELSE IF FACE_RECOGNITION_AVAILABLE
         THEN IF t1.kind = "vec" /\ t2.kind = "vec"
              THEN DistanceToSimilarity(Norm(t1.v, t2.v))
              ELSE Rat(0, 1)
         ELSE IF t1 = t2 THEN Rat(100, 1) ELSE Rat(0, 1)

\* threshold, lines 171 and 215.
VectorThreshold == 85
HashThreshold == 99
Threshold == IF FACE_RECOGNITION_AVAILABLE THEN VectorThreshold ELSE HashThreshold

---------------------------------------------------------------------------
(* detect_duplicate, biometric_matcher.py:140-189 *)

\* The national-ID factor hitting on equality alone, absent IDs included.
NationalIdMatches_NoPresenceCheck(new, existing) ==
    new.national_id = existing.national_id

\* lines 151-152
NationalIdMatches(new, existing) ==
    /\ new.national_id # 0 /\ existing.national_id # 0
    /\ new.national_id = existing.national_id

\* The threshold of line 159.
NameThreshold == 80

\* A name that hits from the threshold on.
NameMatches_AtLeast(similarity) == RatLE(Rat(NameThreshold, 1), similarity)

\* name_sim > 80, line 159
NameMatches(similarity) == RatGT(similarity, Rat(NameThreshold, 1))

\* The factors of one existing record, lines 147-175: the names appended to
\* matching_factors and, at the same positions, the scores appended to scores.
MatchingFactors(new, existing) ==
    LET national ==
            IF NationalIdMatches(new, existing)
            THEN <<[factor |-> "national_id", score |-> Rat(100, 1)]>>
            ELSE <<>>
        name ==
            IF new.name # <<>> /\ existing.name # <<>>
            THEN LET name_sim_ == calculate_name_similarity(new.name, existing.name)
                 IN  IF NameMatches(name_sim_)
                     THEN <<[factor |-> "name", score |-> name_sim_]>>
                     ELSE <<>>
            ELSE <<>>
        biometric ==
            IF Truthy(new.biometric_hash) /\ Truthy(existing.biometric_hash)
            THEN LET bio_sim == calculate_image_similarity(new.biometric_hash,
                                                           existing.biometric_hash)
                 IN  IF RatGT(bio_sim, Rat(Threshold, 1))
                     THEN <<[factor |-> "facial_recognition", score |-> bio_sim]>>
                     ELSE <<>>
            ELSE <<>>
    IN  national \o name \o biometric

RECURSIVE SumScores(_)
SumScores(hits) ==
    IF hits = <<>> THEN Rat(0, 1) ELSE RatAdd(Head(hits).score, SumScores(Tail(hits)))

\* The sum divided by the number of factors there are, not of those that hit.
OverallScore_DivideByThree(hits) == RatDivInt(SumScores(hits), 3)

\* sum(scores) / len(scores), line 179
OverallScore(hits) == RatDivInt(SumScores(hits), Len(hits))

\* A sort that puts a record before those of equal score.
RECURSIVE InsertByScore_BeforeEqual(_, _)
InsertByScore_BeforeEqual(sorted, d) ==
    IF sorted = <<>> THEN <<d>>
    ELSE IF RatLE(Head(sorted).similarity_score, d.similarity_score)
         THEN <<d>> \o sorted
         ELSE <<Head(sorted)>> \o InsertByScore_BeforeEqual(Tail(sorted), d)

\* list.sort(key=similarity_score, reverse=True), line 187: a stable sort,
\* records of equal score keep their order.
RECURSIVE InsertByScore(_, _)
InsertByScore(sorted, d) ==
    IF sorted = <<>> THEN <<d>>
    ELSE IF RatLT(Head(sorted).similarity_score, d.similarity_score)
         THEN <<d>> \o sorted
         ELSE <<Head(sorted)>> \o InsertByScore(Tail(sorted), d)

RECURSIVE SortByScoreDescending(_)
SortByScoreDescending(ds) ==
    IF ds = <<>> THEN <<>>
    ELSE InsertByScore(SortByScoreDescending(SubSeq(ds, 1, Len(ds) - 1)), ds[Len(ds)])

\* The loop of lines 146-184 over existing[1..n].
RECURSIVE CollectDuplicates(_, _)
CollectDuplicates(new, existing) ==
    IF existing = <<>> THEN <<>>
    ELSE LET n == Len(existing)
             hits == MatchingFactors(new, existing[n])
             before == CollectDuplicates(new, SubSeq(existing, 1, n - 1))
         IN  IF hits # <<>>
             THEN Append(before,
                         [employee |-> existing[n],
                          similarity_score |-> OverallScore(hits),
                          matching_factors |-> [i \in 1..Len(hits) |-> hits[i].factor]])
             ELSE before

detect_duplicate(new, existing) ==
    SortByScoreDescending(CollectDuplicates(new, existing))

\* The inputs drawn for detect_duplicate.
Name_abcdef == <<"a", "b", "c", "d", "e", "f">>
Name_abcdeg == <<"a", "b", "c", "d", "e", "g">>
Name_abcde  == <<"a", "b", "c", "d", "e">>
Name_abcdf  == <<"a", "b", "c", "d", "f">>
Name_xy     == <<"x", "y">>

NewNames      == {<<>>, Name_abcdef, Name_abcdeg, Name_abcdf, Name_xy}
ExistingNames == {<<>>, Name_abcdef, Name_abcde}
NewNationalIds      == {0, 1, 2}
ExistingNationalIds == {0, 1}
\* Templates as the mode at hand produces them (image_to_hash).
NewTemplates ==
    IF FACE_RECOGNITION_AVAILABLE
    THEN {NoTemplate, VecTemplate(<<0, 0>>), VecTemplate(<<6, 8>>),
          VecTemplate(<<9, 12>>), VecTemplate(<<18, 24>>)}
    ELSE {NoTemplate, HashTemplate(<<"bits", 1>>), HashTemplate(<<"bits", 2>>)}
ExistingTemplates ==
    IF FACE_RECOGNITION_AVAILABLE
    THEN {NoTemplate, VecTemplate(<<0, 0>>)}
    ELSE {NoTemplate, HashTemplate(<<"bits", 1>>)}

NewEmployeeData ==
    [name : NewNames, national_id : NewNationalIds, biometric_hash : NewTemplates]
ExistingData ==
    [name : ExistingNames, national_id : ExistingNationalIds,
     biometric_hash : ExistingTemplates]

\* A population: existing records with their ids, 1..n in the order read.
WithIds(rows) ==
    [i \in 1..Len(rows) |->
        [id |-> i, name |-> rows[i].name, national_id |-> rows[i].national_id,
         biometric_hash |-> rows[i].biometric_hash]]
Populations ==
    {WithIds(rows) : rows \in UNION {[1..n -> ExistingData] : n \in 0..MaxPopulation}}

---------------------------------------------------------------------------
(* verify_biometric, biometric_matcher.py:191-223 *)

\* d.get(k): None when the dict has no key k.
Get(d, k) == IF k \in DOMAIN d THEN d[k] ELSE NoTemplate

NoMatch == [match |-> FALSE, confidence |-> Rat(0, 1)]

\* A fingerprint comparison that grades a difference instead of rejecting it.
verify_fingerprint_Partial(submitted, stored) ==
    IF Get(submitted, "hash") = Get(stored, "hash")
    THEN [match |-> TRUE, confidence |-> Rat(95, 1)]
    ELSE [match |-> FALSE, confidence |-> Rat(50, 1)]

\* lines 196-201
verify_fingerprint(submitted, stored) ==
    IF Get(submitted, "hash") = Get(stored, "hash")
    THEN [match |-> TRUE, confidence |-> Rat(95, 1)]
    ELSE NoMatch

\* A match from the threshold on.
IsMatch_AtLeast(similarity) == RatLE(Rat(Threshold, 1), similarity)

\* match = similarity > threshold, lines 215-216
IsMatch(similarity) == RatGT(similarity, Rat(Threshold, 1))

\* lines 203-220
verify_facial(submitted, stored) ==
    IF Get(submitted, "photo_data").kind # "none" /\ Truthy(Get(stored, "hash"))
    THEN LET submitted_template == image_to_hash(submitted.photo_data)
         IN  IF Truthy(submitted_template)
             THEN LET similarity ==
                          calculate_image_similarity(submitted_template, stored.hash)
                  IN  [match |-> IsMatch(similarity), confidence |-> similarity]
             ELSE NoMatch
    ELSE NoMatch

verify_biometric(submitted, stored) ==
    IF Get(submitted, "type") = "fingerprint" THEN verify_fingerprint(submitted, stored)
    ELSE IF Get(submitted, "type") = "facial" THEN verify_facial(submitted, stored)
    ELSE NoMatch

\* The inputs drawn for verify_biometric: a submission is a dict with a type
\* and, each present or not, a hash and a photo; a stored template is the dict
\* read from template_data, with or without a hash.
Submissions ==
    UNION {[type : {"fingerprint", "facial", "id_card"},
            hash : {HashTemplate(<<"data", 1>>), HashTemplate(<<"data", 2>>)},
            photo_data : Images],
           [type : {"fingerprint", "facial", "id_card"},
            photo_data : Images],
           [type : {"fingerprint", "facial", "id_card"},
            hash : {HashTemplate(<<"data", 1>>), HashTemplate(<<"data", 2>>)}],
           [type : {"fingerprint", "facial", "id_card"}]}
StoredTemplates ==
    [hash : Templates \cup {HashTemplate(<<"data", 1>>)}] \cup {[quality |-> 90]}

---------------------------------------------------------------------------
(* detect_ghost_workers, fraud_detection.py:8-55 *)

\* days_threshold=30, line 8
DefaultDaysThreshold == 30

\* attendance_map.get(employee.id, []), lines 22-25 and 33: the employee's
\* records in the order of attendance_logs.
AttendancesOf(logs, employee_id) ==
    SelectSeq(logs, LAMBDA log : log.employee_id = employee_id)

\* The earliest record taken for the last one.
LastAttendance_Earliest(attendances) ==
    LET first == CHOOSE i \in 1..Len(attendances) :
                     /\ \A k \in 1..Len(attendances) :
                            attendances[i].check_in_time <= attendances[k].check_in_time
                     /\ \A k \in 1..(i - 1) :
                            attendances[k].check_in_time # attendances[i].check_in_time
    IN  attendances[first]

\* max(attendances, key=check_in_time), line 46: the first of the latest.
LastAttendance(attendances) ==
    LET first == CHOOSE i \in 1..Len(attendances) :
                     /\ \A k \in 1..Len(attendances) :
                            attendances[i].check_in_time >= attendances[k].check_in_time
                     /\ \A k \in 1..(i - 1) :
                            attendances[k].check_in_time # attendances[i].check_in_time
    IN  attendances[first]

\* What lines 29-53 append for one employee: nothing, or one finding.
GhostFindings(employee, logs, threshold, today) ==
    LET cutoff_date == today - threshold
        attendances == AttendancesOf(logs, employee.id)
    IN  IF employee.status # "active" THEN <<>>
        ELSE IF ~(employee.registration_date < cutoff_date) THEN <<>>
        ELSE IF attendances = <<>>
             THEN <<[employee |-> employee,
                     reason |-> <<"No attendance records">>,
                     days_since_registration |-> today - employee.registration_date]>>
             ELSE LET last_attendance == LastAttendance(attendances)
                  IN  IF last_attendance.check_in_time < cutoff_date
                      THEN <<[employee |-> employee,
                              reason |-> <<"No attendance in", threshold, "days">>,
                              last_attendance |-> last_attendance.check_in_time,
                              days_since_attendance |->
                                  today - last_attendance.check_in_time]>>
                      ELSE <<>>

RECURSIVE detect_ghost_workers(_, _, _, _)
detect_ghost_workers(emps, logs, threshold, today) ==
    IF emps = <<>> THEN <<>>
    ELSE detect_ghost_workers(SubSeq(emps, 1, Len(emps) - 1), logs, threshold, today)
         \o GhostFindings(emps[Len(emps)], logs, threshold, today)

\* The inputs drawn for detect_ghost_workers, with the day of the call
\* (datetime.utcnow()) as day 0: two employees, each active or not and
\* registered 5, 30, 31 or 40 days ago; attendance records of either employee
\* 5, 30 or 35 days ago; the default threshold or one of 5 days.
RegistrationAges == {5, 30, 31, 40}
CheckInAges == {5, 30, 35}
EmployeeRows ==
    {<<[id |-> 1, status |-> s1, registration_date |-> 0 - a1],
       [id |-> 2, status |-> s2, registration_date |-> 0 - a2]>> :
        <<s1, a1, s2, a2>> \in {"active", "inactive"} \X RegistrationAges
                                \X {"active", "inactive"} \X RegistrationAges}
AttendanceRows ==
    [employee_id : {1, 2}, check_in_time : {0 - a : a \in CheckInAges}]
AttendanceLogs == UNION {[1..n -> AttendanceRows] : n \in 0..MaxLogs}
DaysThresholds == {DefaultDaysThreshold, 5}

---------------------------------------------------------------------------
(* detect_duplicate_claims, fraud_detection.py:58-93.  A claim_date is     *)
(* counted in whole hours, so that total_seconds() / 3600 is the           *)
(* difference of two claim dates.                                          *)

\* time_window_hours=24, line 58
DefaultTimeWindowHours == 24

\* The keys of claims_by_employee, lines 72-74, in the order a dict keeps
\* them: that of their first appearance in benefit_claims.
RECURSIVE EmployeeIdsInOrder(_)
EmployeeIdsInOrder(claims) ==
    IF claims = <<>> THEN <<>>
    ELSE LET before == EmployeeIdsInOrder(SubSeq(claims, 1, Len(claims) - 1))
             employee_id == claims[Len(claims)].employee_id
         IN  IF \E k \in 1..Len(before) : before[k] = employee_id
             THEN before
             ELSE Append(before, employee_id)

\* claims_by_employee[employee_id], lines 72-74
ClaimsOf(claims, employee_id) ==
    SelectSeq(claims, LAMBDA claim : claim.employee_id = employee_id)

\* sorted(claims, key=claim_date), line 78: a stable sort, claims of equal
\* date keep their order.
RECURSIVE InsertByDate(_, _)
InsertByDate(sorted, claim) ==
    IF sorted = <<>> THEN <<claim>>
    ELSE IF claim.claim_date < Head(sorted).claim_date
         THEN <<claim>> \o sorted
         ELSE <<Head(sorted)>> \o InsertByDate(Tail(sorted), claim)

RECURSIVE SortByClaimDate(_)
SortByClaimDate(claims) ==
    IF claims = <<>> THEN <<>>
    ELSE InsertByDate(SortByClaimDate(SubSeq(claims, 1, Len(claims) - 1)),
                      claims[Len(claims)])

\* A gap equal to the window flagged as well.
WithinWindow_Inclusive(hours_diff, window) == hours_diff <= window

\* hours_diff < time_window_hours, line 85
WithinWindow(hours_diff, window) == hours_diff < window

\* The loop of lines 81-91 over the pairs (claims[i], claims[i + 1]),
\* i = 1..upto, of one employee's sorted claims.
RECURSIVE PairFindings(_, _, _, _)
PairFindings(employee_id, claims, window, upto) ==
    IF upto <= 0 THEN <<>>
    ELSE LET before == PairFindings(employee_id, claims, window, upto - 1)
             hours_diff == claims[upto + 1].claim_date - claims[upto].claim_date
         IN  IF WithinWindow(hours_diff, window)
             THEN Append(before,
                         [employee_id |-> employee_id,
                          claims |-> <<claims[upto], claims[upto + 1]>>,
                          time_difference_hours |-> hours_diff,
                          reason |-> <<"Multiple claims within", window, "hours">>])
             ELSE before

\* The loop of lines 76-91 over the employees ids[1..n].
RECURSIVE FindingsOfEmployees(_, _, _)
FindingsOfEmployees(ids, claims, window) ==
    IF ids = <<>> THEN <<>>
    ELSE LET sorted == SortByClaimDate(ClaimsOf(claims, Head(ids)))
         IN  PairFindings(Head(ids), sorted, window, Len(sorted) - 1)
             \o FindingsOfEmployees(Tail(ids), claims, window)

detect_duplicate_claims(claims, window) ==
    FindingsOfEmployees(EmployeeIdsInOrder(claims), claims, window)

\* The inputs drawn for detect_duplicate_claims: up to MaxClaims claims of
\* two employees, dated at hour 0, 1, 23, 24 or 25, numbered in the order
\* read; the default window or one of 2 hours.
ClaimHours == {0, 1, 23, 24, 25}
ClaimRows == [employee_id : {1, 2}, claim_date : ClaimHours]
WithClaimIds(rows) ==
    [i \in 1..Len(rows) |->
        [id |-> i, employee_id |-> rows[i].employee_id,
         claim_date |-> rows[i].claim_date]]
BenefitClaimLists ==
    {WithClaimIds(rows) : rows \in UNION {[1..n -> ClaimRows] : n \in 0..MaxClaims}}
TimeWindows == {DefaultTimeWindowHours, 2}

---------------------------------------------------------------------------
(* detect_unusual_patterns, fraud_detection.py:96-132.  A check_in_time is *)
(* its weekday() (Monday 0 to Sunday 6) and its hour; a confidence_score   *)
(* is NoScore (None) or a float.                                           *)

NoScore == [kind |-> "none"]

\* Python truthiness of a confidence_score: None and 0.0 are false.
TruthyScore(score) == score # NoScore /\ score.num # 0

\* lines 109-114
WeekendFindings(log) ==
    IF log.check_in_time.weekday >= 5
    THEN <<[type |-> "weekend_checkin", log |-> log,
            reason |-> <<"Check-in on weekend">>]>>
    ELSE <<>>

\* lines 117-122
UnusualHourFindings(log) ==
    IF log.check_in_time.hour < 5
    THEN <<[type |-> "unusual_hour", log |-> log,
            reason |-> <<"Check-in at unusual hour:", log.check_in_time.hour>>]>>
    ELSE <<>>

\* lines 125-130
LowConfidenceFindings(log) ==
    IF TruthyScore(log.confidence_score) /\ RatLT(log.confidence_score, Rat(70, 1))
    THEN <<[type |-> "low_confidence", log |-> log,
            reason |-> <<"Low verification confidence:", log.confidence_score>>]>>
    ELSE <<>>

\* The loop of lines 105-130 over logs[1..n].
RECURSIVE detect_unusual_patterns(_)
detect_unusual_patterns(logs) ==
    IF logs = <<>> THEN <<>>
    ELSE WeekendFindings(Head(logs)) \o UnusualHourFindings(Head(logs))
         \o LowConfidenceFindings(Head(logs))
         \o detect_unusual_patterns(Tail(logs))

\* The inputs drawn for detect_unusual_patterns: up to MaxLogs records,
\* numbered in the order read, checked in on a Friday, Saturday or Sunday at
\* 4 or 5 o'clock, with no confidence score or one of 0, 69, 69.5 or 70.
PatternLogRows ==
    [check_in_time : [weekday : {4, 5, 6}, hour : {4, 5}],
     confidence_score : {NoScore, Rat(0, 1), Rat(69, 1), Rat(139, 2), Rat(70, 1)}]
WithLogIds(rows) ==
    [i \in 1..Len(rows) |->
        [id |-> i, check_in_time |-> rows[i].check_in_time,
         confidence_score |-> rows[i].confidence_score]]
PatternLogs ==
    {WithLogIds(rows) : rows \in UNION {[1..n -> PatternLogRows] : n \in 0..MaxLogs}}

---------------------------------------------------------------------------
(* analyze_employee_risk, fraud_detection.py:135-187.  Dates are counted   *)
(* in whole hours here, so that timedelta.days is a division by 24.        *)

\* employee_duplicates, lines 146-147
EmployeeDuplicates(emp, alerts) ==
    SelectSeq(alerts, LAMBDA d : d.employee_id_1 = emp.id \/ d.employee_id_2 = emp.id)

\* Every alert naming the employee taken for a pending one.
PendingDuplicates_AnyStatus(emp, alerts) == EmployeeDuplicates(emp, alerts)

\* pending_duplicates, line 149
PendingDuplicates(emp, alerts) ==
    SelectSeq(EmployeeDuplicates(emp, alerts), LAMBDA d : d.status = "pending")

\* employee_attendance, line 155
EmployeeAttendance(emp, logs) ==
    SelectSeq(logs, LAMBDA log : log.employee_id = emp.id)

\* (datetime.utcnow() - date).days, line 157: the whole days elapsed.
DaysSince(today, date) == (today - date) \div 24

\* employee_claims, line 163
EmployeeClaims(emp, claims) ==
    SelectSeq(claims, LAMBDA claim : claim.employee_id = emp.id)

\* unverified_claims, line 164
UnverifiedClaims(emp, claims) ==
    SelectSeq(EmployeeClaims(emp, claims), LAMBDA c : ~c.verified_by_biometric)

\* The signals of lines 145-172 that qualify, in the order tested: what each
\* adds to risk_score and appends to risk_factors.
RiskSignals(emp, logs, claims, alerts, today) ==
    LET pending_duplicates == PendingDuplicates(emp, alerts)
        days_since_reg == DaysSince(today, emp.registration_date)
        employee_claims == EmployeeClaims(emp, claims)
        unverified_claims == UnverifiedClaims(emp, claims)
    IN  (IF EmployeeDuplicates(emp, alerts) # <<>> /\ pending_duplicates # <<>>
         THEN <<[weight |-> 40,
                 factor |-> <<Len(pending_duplicates), "pending duplicate alerts">>]>>
         ELSE <<>>)
        \o (IF Len(EmployeeAttendance(emp, logs)) = 0 /\ emp.status = "active"
               /\ days_since_reg > 7
            THEN <<[weight |-> 30,
                    factor |-> <<"No attendance in", days_since_reg, "days">>]>>
            ELSE <<>>)
        \o (IF Len(unverified_claims) > 0
            THEN <<[weight |-> 20,
                    factor |-> <<Len(unverified_claims), "unverified benefit claims">>]>>
            ELSE <<>>)
        \o (IF Len(employee_claims) > 5
            THEN <<[weight |-> 10,
                    factor |-> <<"High number of benefit claims", Len(employee_claims)>>]>>
            ELSE <<>>)

RECURSIVE SumWeights(_)
SumWeights(signals) ==
    IF signals = <<>> THEN 0 ELSE Head(signals).weight + SumWeights(Tail(signals))

\* risk_level, lines 174-180
RiskLevel(risk_score) ==
    IF risk_score >= 70 THEN "critical"
    ELSE IF risk_score >= 40 THEN "high"
    ELSE IF risk_score >= 20 THEN "medium"
    ELSE "low"

\* A score reduced modulo 100 instead of capped.
ClampScore_Wrap(risk_score) == risk_score % 100

\* min(100, risk_score), line 184
ClampScore(risk_score) == Min(100, risk_score)

analyze_employee_risk(emp, logs, claims, alerts, today) ==
    LET signals == RiskSignals(emp, logs, claims, alerts, today)
        risk_score == SumWeights(signals)
    IN  [employee_id |-> emp.id,
         risk_score |-> ClampScore(risk_score),
         risk_level |-> RiskLevel(risk_score),
         risk_factors |-> [i \in 1..Len(signals) |-> signals[i].factor]]

\* The inputs drawn for analyze_employee_risk.  The first call is on employee
\* 1, active or not and registered 7 days and 12 hours ago, with no attendance
\* record or a colleague's, no claim or a colleague's unverified one, no alert
\* or a pending one between two colleagues.  Every later call is on the same
\* inputs with one more alert, claim or attendance record, or 12 hours later.
AnalyzedEmployees ==
    [id : {1}, status : {"active", "inactive"}, registration_date : {0 - 180}]
FirstRiskLogs == {<<>>, <<[employee_id |-> 2]>>}
FirstRiskClaims == {<<>>, <<[employee_id |-> 2, verified_by_biometric |-> FALSE]>>}
FirstRiskAlerts ==
    {<<>>, <<[employee_id_1 |-> 2, employee_id_2 |-> 3, status |-> "pending"]>>}
MoreRiskLogs == {[employee_id |-> 1]}
MoreRiskClaims == [employee_id : {1}, verified_by_biometric : BOOLEAN]
MoreRiskAlerts ==
    {[employee_id_1 |-> 1, employee_id_2 |-> 2, status |-> "pending"],
     [employee_id_1 |-> 3, employee_id_2 |-> 1, status |-> "resolved"]}

---------------------------------------------------------------------------
(* register_employee, app.py:73-213 *)

\* similarity_score > 80, line 187
AlertThreshold == 80

\* Employee.query.filter_by(status='active').all() as existing_data, lines
\* 121-136 (photo_data is not read by detect_duplicate).
ActiveEmployeeData(rows) ==
    LET active == SelectSeq(rows, LAMBDA emp : emp.status = "active")
    IN  [i \in 1..Len(active) |->
            [id |-> active[i].id, name |-> active[i].name,
             national_id |-> active[i].national_id,
             biometric_hash |-> active[i].biometric_hash]]

\* Employee.query.filter_by(national_id=...).first() finds a row, line 86
NationalIdRegistered(rows, national_id) ==
    \E i \in 1..Len(rows) : rows[i].national_id = national_id

\* biometric_hash, lines 94-103
RequestTemplate(data) ==
    IF data.photo_data.kind # "none" THEN image_to_hash(data.photo_data) ELSE NoTemplate

\* new_data, lines 138-143
NewData(data) ==
    [name |-> data.name, national_id |-> data.national_id,
     biometric_hash |-> RequestTemplate(data)]

\* The templates stored for the new employee, lines 164-182.
StoredTemplatesOf(data, employee_id) ==
    (IF data.photo_data.kind # "none"
     THEN <<[employee_id |-> employee_id, template_type |-> "facial",
             template_data |-> [hash |-> RequestTemplate(data),
                                photo_data |-> RequestTemplate(data)],
             quality_score |-> 90]>>
     ELSE <<>>)
    \o (IF data.fingerprint_data # 0
        THEN <<[employee_id |-> employee_id, template_type |-> "fingerprint",
                template_data |-> [hash |-> generate_biometric_hash(data.fingerprint_data)],
                quality_score |-> 95]>>
        ELSE <<>>)

\* An alert raised from a score of 90 on only.
AlertedDuplicates_Above90(dups) ==
    SelectSeq(dups, LAMBDA dup : RatGT(dup.similarity_score, Rat(90, 1)))

\* An alert raised for an exact match only.
AlertedDuplicates_PerfectOnly(dups) ==
    SelectSeq(dups, LAMBDA dup : RatLE(Rat(100, 1), dup.similarity_score))

\* The duplicates that raise an alert, lines 186-187, in the order of dups.
AlertedDuplicates(dups) ==
    SelectSeq(dups, LAMBDA dup : RatGT(dup.similarity_score, Rat(AlertThreshold, 1)))

\* The DuplicateAlert rows added, lines 188-194.
NewAlerts(dups, employee_id) ==
    LET alerted == AlertedDuplicates(dups)
    IN  [i \in 1..Len(alerted) |->
            [employee_id_1 |-> employee_id,
             employee_id_2 |-> alerted[i].employee.id,
             similarity_score |-> alerted[i].similarity_score,
             matching_factors |-> alerted[i].matching_factors,
             status |-> "pending"]]

\* duplicate_alerts of the response, lines 195-199.
ResponseAlerts(dups) ==
    LET alerted == AlertedDuplicates(dups)
    IN  [i \in 1..Len(alerted) |->
            [existing_employee |-> alerted[i].employee.name,
             similarity_score |-> alerted[i].similarity_score,
             matching_factors |-> alerted[i].matching_factors]]

\* The registration requests drawn: every combination of a name (one of
\* three), a national ID (absent, or 1) and a photo (absent, or one face)
\* without fingerprint data; two requests with the photo of a second face, 0.1
\* away from the first and on a different raster; three requests with
\* fingerprint data, one of them with a photo showing no face; and a request
\* without a name.
RegistrationRequests ==
    [name : {Name_abcdef, Name_abcdeg, Name_xy},
     national_id : {0, 1},
     photo_data : {NoPhoto, Image(TRUE, <<<<0, 0>>>>, 1)},
     fingerprint_data : {0}]
    \cup
    {[name |-> Name_abcdeg, national_id |-> 0,
      photo_data |-> Image(TRUE, <<<<6, 8>>>>, 2), fingerprint_data |-> 0],
     [name |-> Name_xy, national_id |-> 1,
      photo_data |-> Image(TRUE, <<<<6, 8>>>>, 2), fingerprint_data |-> 0],
     [name |-> Name_abcdef, national_id |-> 0, photo_data |-> NoPhoto,
      fingerprint_data |-> 1],
     [name |-> Name_xy, national_id |-> 1,
      photo_data |-> Image(TRUE, <<<<0, 0>>>>, 1), fingerprint_data |-> 1],
     [name |-> Name_abcdeg, national_id |-> 0,
      photo_data |-> Image(TRUE, <<>>, 2), fingerprint_data |-> 1],
     [name |-> <<>>, national_id |-> 0, photo_data |-> NoPhoto,
      fingerprint_data |-> 0]}

---------------------------------------------------------------------------
(* verify_identity, app.py:218-254.  template_data holds json.dumps of a   *)
(* dict of strings and None, which json.loads gives back unchanged.        *)

\* An absent biometric_data.
NoData == [kind |-> "none"]

\* Employee.query.get(employee_id) finds a row, lines 230-232
EmployeeExists(rows, employee_id) ==
    \E i \in 1..Len(rows) : rows[i].id = employee_id

\* BiometricTemplate.query.filter_by(employee_id=employee_id).all(), line 235
TemplatesOf(rows, employee_id) ==
    SelectSeq(rows, LAMBDA template : template.employee_id = employee_id)

\* The loop of lines 237-244 over templates[1..n]: a result replaces the one
\* kept only when its confidence is strictly higher.
RECURSIVE BestResult(_, _)
BestResult(verification_data, templates) ==
    IF templates = <<>> THEN NoMatch
    ELSE LET n == Len(templates)
             verification_result ==
                 BestResult(verification_data, SubSeq(templates, 1, n - 1))
             result == verify_biometric(verification_data, templates[n].template_data)
         IN  IF RatGT(result.confidence, verification_result.confidence)
             THEN result
             ELSE verification_result

\* Whether result['match'] is a numpy.bool_.  In vector mode a positive facial
\* similarity is the numpy.float64 of biometric_matcher.py:80-86 (max(0, .)
\* returns its int 0 otherwise) and match, its comparison with the threshold
\* at biometric_matcher.py:216, is a numpy.bool_; every other result carries
\* Python's own bool.
NumpyBool(verification_data, result) ==
    /\ FACE_RECOGNITION_AVAILABLE
    /\ verification_data.type = "facial"
    /\ RatGT(result.confidence, Rat(0, 1))

\* jsonify and the handler's except clause, lines 246-254: the JSON encoder
\* raises TypeError on a numpy.bool_, float and its subclass numpy.float64 are
\* encoded.
VerificationResponse(row, verification_data, verification_result) ==
    IF NumpyBool(verification_data, verification_result)
    THEN [status |-> 500, error |-> "Object of type bool_ is not JSON serializable"]
    ELSE [status |-> 200, employee |-> row,
          verified |-> verification_result.match,
          confidence |-> verification_result.confidence]

\* The response of verify_identity to the request data, lines 220-254.
verify_identity(data) ==
    IF data.employee_id = 0 \/ data.biometric_data = NoData
    THEN [status |-> 400, error |-> "Employee ID and biometric data required"]
    ELSE IF ~EmployeeExists(db_employees, data.employee_id)
    THEN [status |-> 404, error |-> "Employee not found"]
    ELSE LET row == db_employees[CHOOSE i \in 1..Len(db_employees) :
                                     db_employees[i].id = data.employee_id]
             templates == TemplatesOf(db_templates, data.employee_id)
         IN  VerificationResponse(row, data.biometric_data,
                                  BestResult(data.biometric_data, templates))

\* The verification requests drawn: one without an employee ID, one without
\* biometric data, and for the first employee registered and for one that is
\* not registered a fingerprint submission with the hash of fingerprint data
\* 1, a fingerprint submission without a hash, and a facial submission with
\* one of the two faces of the registration requests.
VerificationData ==
    {[type |-> "fingerprint", hash |-> generate_biometric_hash(1)],
     [type |-> "fingerprint"],
     [type |-> "facial", photo_data |-> Image(TRUE, <<<<0, 0>>>>, 1)],
     [type |-> "facial", photo_data |-> Image(TRUE, <<<<6, 8>>>>, 2)]}
VerificationRequests ==
    {[employee_id |-> 0, biometric_data |-> [type |-> "fingerprint"]],
     [employee_id |-> 1, biometric_data |-> NoData]}
    \cup [employee_id : {1, MaxEmployees + 1}, biometric_data : VerificationData]

---------------------------------------------------------------------------
(* check_in, app.py:257-298 *)

\* data.get('verification_method', 'facial'), line 264
VerificationMethod(data) ==
    IF "verification_method" \in DOMAIN data THEN data.verification_method ELSE "facial"

\* confidence, lines 271-276.  verify_identity() is called as a function on
\* the same request: it returns a Response, which has the attribute json, on
\* its 200 path, and a tuple (response, status), which has not, on its 400,
\* 404 and 500 paths.
CheckInConfidence(data) ==
    IF data.biometric_data = NoData THEN Rat(100, 1)
    ELSE LET verify_data == verify_identity(data)
         IN  IF verify_data.status = 200
             THEN verify_data.confidence
             ELSE Rat(100, 1)

\* The AttendanceLog row added, lines 279-285.
NewLog(data, id) ==
    [id |-> id, employee_id |-> data.employee_id,
     verification_method |-> VerificationMethod(data),
     confidence_score |-> CheckInConfidence(data)]

\* The check-in requests drawn: for the first employee registered, one
\* without biometric data and without a verification method, and one with
\* each submission of VerificationData; for an employee that is not
\* registered, one without biometric data.
CheckInRequests ==
    {[employee_id |-> 1, biometric_data |-> NoData],
     [employee_id |-> MaxEmployees + 1, biometric_data |-> NoData]}
    \cup {[employee_id |-> 1, verification_method |-> submission.type,
           biometric_data |-> submission] : submission \in VerificationData}

\* The registrations that precede the check-ins: an employee with a facial
\* and a fingerprint template, one whose photo shows no face, with a
\* fingerprint template, and one without any template.
EnrolmentRequests ==
    {[name |-> Name_xy, national_id |-> 1,
      photo_data |-> Image(TRUE, <<<<0, 0>>>>, 1), fingerprint_data |-> 1],
     [name |-> Name_abcdeg, national_id |-> 0,
      photo_data |-> Image(TRUE, <<>>, 2), fingerprint_data |-> 1],
     [name |-> Name_abcdef, national_id |-> 0, photo_data |-> NoPhoto,
      fingerprint_data |-> 0]}

---------------------------------------------------------------------------
(* Specification SpecName: calculate_name_similarity on every pair of names *)

\* The variables of a function that the specification at hand does not call.
IdleName  == name1 = Unused /\ name2 = Unused /\ name_sim = Unused
IdleImage == template1 = Unused /\ template2 = Unused /\ image_sim = Unused
IdleDetect ==
    new_employee_data = Unused /\ existing_employees = Unused /\ duplicates = Unused
IdleVerify ==
    submitted_data = Unused /\ stored_template = Unused /\ verify_result = Unused
IdleGhost ==
    /\ employees = Unused /\ attendance_logs = Unused /\ days_threshold = Unused
    /\ now = Unused /\ ghost_workers = Unused
IdleFraud ==
    /\ benefit_claims = Unused /\ time_window_hours = Unused
    /\ suspicious_claims = Unused /\ unusual_patterns = Unused
    /\ analyzed_employee = Unused /\ risk = Unused
IdleApp ==
    /\ db_employees = <<>> /\ db_templates = <<>> /\ db_alerts = <<>>
    /\ db_attendance = <<>>
    /\ request = Unused /\ response = Unused /\ registrations = Unused

InitName ==
    /\ FACE_RECOGNITION_AVAILABLE = TRUE
    /\ pc = "call"
    /\ name1 \in Names
    /\ name2 \in Names
    /\ name_sim = Unused
    /\ IdleImage /\ IdleDetect /\ IdleVerify /\ IdleGhost /\ IdleFraud
    /\ IdleApp

CallNameSimilarity ==
    /\ pc = "call"
    /\ pc' = "done"
    /\ name_sim' = calculate_name_similarity(name1, name2)
    /\ UNCHANGED <<FACE_RECOGNITION_AVAILABLE, name1, name2, imageVars, detectVars,
                   verifyVars, ghostVars, fraudVars, appVars>>

NextName == CallNameSimilarity

SpecName == InitName /\ [][NextName]_vars

---------------------------------------------------------------------------
(* Specification SpecImage: calculate_image_similarity on every pair of    *)
(* templates, in both modes                                                *)

InitImage ==
    /\ FACE_RECOGNITION_AVAILABLE \in BOOLEAN
    /\ pc = "call"
    /\ template1 \in Templates
    /\ template2 \in Templates
    /\ image_sim = Unused
    /\ IdleName /\ IdleDetect /\ IdleVerify /\ IdleGhost /\ IdleFraud
    /\ IdleApp

CallImageSimilarity ==
    /\ pc = "call"
    /\ pc' = "done"
    /\ image_sim' = calculate_image_similarity(template1, template2)
    /\ UNCHANGED <<FACE_RECOGNITION_AVAILABLE, template1, template2, nameVars,
                   detectVars, verifyVars, ghostVars, fraudVars, appVars>>

NextImage == CallImageSimilarity

SpecImage == InitImage /\ [][NextImage]_vars

---------------------------------------------------------------------------
(* Specification SpecDetect: detect_duplicate on every candidate and every *)
(* population, in both modes                                               *)

InitDetect ==
    /\ FACE_RECOGNITION_AVAILABLE \in BOOLEAN
    /\ pc = "call"
    /\ new_employee_data \in NewEmployeeData
    /\ existing_employees \in Populations
    /\ duplicates = Unused
    /\ IdleName /\ IdleImage /\ IdleVerify /\ IdleGhost /\ IdleFraud
    /\ IdleApp

CallDetectDuplicate ==
    /\ pc = "call"
    /\ pc' = "done"
    /\ duplicates' = detect_duplicate(new_employee_data, existing_employees)
    /\ UNCHANGED <<FACE_RECOGNITION_AVAILABLE, new_employee_data,
                   existing_employees, nameVars, imageVars, verifyVars,
                   ghostVars, fraudVars, appVars>>

NextDetect == CallDetectDuplicate

SpecDetect == InitDetect /\ [][NextDetect]_vars

---------------------------------------------------------------------------
(* Specification SpecVerify: verify_biometric on every submission and every *)
(* stored template, in both modes                                           *)

InitVerify ==
    /\ FACE_RECOGNITION_AVAILABLE \in BOOLEAN
    /\ pc = "call"
    /\ submitted_data \in Submissions
    /\ stored_template \in StoredTemplates
    /\ verify_result = Unused
    /\ IdleName /\ IdleImage /\ IdleDetect /\ IdleGhost /\ IdleFraud
    /\ IdleApp

CallVerifyBiometric ==
    /\ pc = "call"
    /\ pc' = "done"
    /\ verify_result' = verify_biometric(submitted_data, stored_template)
    /\ UNCHANGED <<FACE_RECOGNITION_AVAILABLE, submitted_data, stored_template,
                   nameVars, imageVars, detectVars, ghostVars, fraudVars, appVars>>

NextVerify == CallVerifyBiometric

SpecVerify == InitVerify /\ [][NextVerify]_vars

---------------------------------------------------------------------------
(* Specification SpecGhost: detect_ghost_workers at a fixed 'now' *)

InitGhost ==
    /\ FACE_RECOGNITION_AVAILABLE = TRUE
    /\ pc = "call"
    /\ employees \in EmployeeRows
    /\ attendance_logs \in AttendanceLogs
    /\ days_threshold \in DaysThresholds
    /\ now = 0
    /\ ghost_workers = Unused
    /\ IdleName /\ IdleImage /\ IdleDetect /\ IdleVerify /\ IdleFraud
    /\ IdleApp

CallDetectGhostWorkers ==
    /\ pc = "call"
    /\ pc' = "done"
    /\ ghost_workers' =
           detect_ghost_workers(employees, attendance_logs, days_threshold, now)
    /\ UNCHANGED <<FACE_RECOGNITION_AVAILABLE, employees, attendance_logs,
                   days_threshold, now, nameVars, imageVars, detectVars, verifyVars,
                   fraudVars, appVars>>

NextGhost == CallDetectGhostWorkers

SpecGhost == InitGhost /\ [][NextGhost]_vars

---------------------------------------------------------------------------
(* Specification Spec: the application, from an empty database.  The       *)
(* variables new_employee_data, existing_employees and duplicates hold     *)
(* new_data, existing_data and duplicates of the last registration that    *)
(* reached detect_duplicate.                                               *)

Init ==
    /\ FACE_RECOGNITION_AVAILABLE \in BOOLEAN
    /\ pc = "idle"
    /\ IdleApp
    /\ IdleName /\ IdleImage /\ IdleDetect /\ IdleVerify /\ IdleGhost /\ IdleFraud

\* POST /api/register, register_employee
RegisterEmployee(data) ==
    /\ Len(db_employees) < MaxEmployees
    /\ pc' = "register_employee"
    /\ request' = data
    /\ IF data.name = <<>>
       THEN /\ response' = [status |-> 400, error |-> "Name is required"]
            /\ UNCHANGED <<dbVars, detectVars>>
       ELSE IF data.national_id # 0
               /\ NationalIdRegistered(db_employees, data.national_id)
       THEN /\ response' = [status |-> 400, error |-> "National ID already registered"]
            /\ UNCHANGED <<dbVars, detectVars>>
       ELSE LET new_data == NewData(data)
                existing_data == ActiveEmployeeData(db_employees)
                dups == detect_duplicate(new_data, existing_data)
                employee ==
                    [id |-> Len(db_employees) + 1, name |-> data.name,
                     national_id |-> data.national_id,
                     biometric_hash |-> new_data.biometric_hash,
                     status |-> "active"]
            IN  /\ new_employee_data' = new_data
                /\ existing_employees' = existing_data
                /\ duplicates' = dups
                /\ db_employees' = Append(db_employees, employee)
                /\ db_templates' = db_templates \o StoredTemplatesOf(data, employee.id)
                /\ db_alerts' = db_alerts \o NewAlerts(dups, employee.id)
                /\ db_attendance' = db_attendance
                /\ response' = [status |-> 201, success |-> TRUE,
                                employee |-> employee,
                                duplicates_found |-> Len(AlertedDuplicates(dups)),
                                duplicate_alerts |-> ResponseAlerts(dups)]
    /\ UNCHANGED <<FACE_RECOGNITION_AVAILABLE, nameVars, imageVars, verifyVars,
                   ghostVars, fraudVars, registrations>>

\* POST /api/verify, verify_identity
VerifyIdentity(data) ==
    /\ pc' = "verify_identity"
    /\ request' = data
    /\ response' = verify_identity(data)
    /\ UNCHANGED <<FACE_RECOGNITION_AVAILABLE, dbVars, nameVars, imageVars,
                   detectVars, verifyVars, ghostVars, fraudVars, registrations>>

Next ==
    \/ \E data \in RegistrationRequests : RegisterEmployee(data)
    \/ \E data \in VerificationRequests : VerifyIdentity(data)

Spec == Init /\ [][Next]_vars

---------------------------------------------------------------------------
(* Specification SpecAttendance: registrations and check-ins, from an      *)
(* empty database.                                                         *)

\* POST /api/check-in, check_in
CheckIn(data) ==
    /\ Len(db_attendance) < MaxLogs
    /\ pc' = "check_in"
    /\ request' = data
    /\ IF ~EmployeeExists(db_employees, data.employee_id)
       THEN /\ response' = [status |-> 404, error |-> "Employee not found"]
            /\ db_attendance' = db_attendance
       ELSE LET log == NewLog(data, Len(db_attendance) + 1)
            IN  /\ db_attendance' = Append(db_attendance, log)
                /\ response' = [status |-> 201, success |-> TRUE, log |-> log]
    /\ UNCHANGED <<FACE_RECOGNITION_AVAILABLE, db_employees, db_templates, db_alerts,
                   nameVars, imageVars, detectVars, verifyVars, ghostVars, fraudVars,
                   registrations>>

NextAttendance ==
    \/ \E data \in EnrolmentRequests : RegisterEmployee(data)
    \/ \E data \in CheckInRequests : CheckIn(data)

SpecAttendance == Init /\ [][NextAttendance]_vars

---------------------------------------------------------------------------
(* Specification SpecConcurrent: MaxRequests registration requests handled *)
(* at the same time by the threaded server of app.py:579, from an empty    *)
(* database.  Each request runs register_employee in its own session on    *)
(* the SQLite database of app.py:31: a query reads the rows committed so   *)
(* far, the first INSERT of a session (the flush of line 162) takes the    *)
(* database's write lock, and the commit of line 201 publishes the         *)
(* session's rows and releases the lock.                                   *)

\* The requests drawn: a name only, no national ID, photo or fingerprint.
ConcurrentRequests ==
    [name : {Name_abcdef, Name_abcdeg, Name_xy, <<>>}, national_id : {0},
     photo_data : {NoPhoto}, fingerprint_data : {0}]

\* A request that has been received and not handled yet.
Received(data) ==
    [step |-> "received", data |-> data, existing_data |-> <<>>,
     duplicates |-> <<>>, employee_id |-> 0, status |-> 0]

InitConcurrent ==
    /\ FACE_RECOGNITION_AVAILABLE \in BOOLEAN
    /\ pc = "idle"
    /\ db_employees = <<>> /\ db_templates = <<>> /\ db_alerts = <<>>
    /\ db_attendance = <<>>
    /\ request = Unused /\ response = Unused
    /\ registrations \in [1..MaxRequests -> {Received(data) : data \in ConcurrentRequests}]
    /\ IdleName /\ IdleImage /\ IdleDetect /\ IdleVerify /\ IdleGhost /\ IdleFraud

\* What a step of a request leaves alone besides the database.
ConcurrentFrame ==
    UNCHANGED <<FACE_RECOGNITION_AVAILABLE, pc, request, response, nameVars, imageVars,
                detectVars, verifyVars, ghostVars, fraudVars>>

\* Lines 78-136: the validation, then the query of the active employees,
\* which sees the committed rows.
ReadActivePopulation(r) ==
    LET reg == registrations[r]
    IN  /\ reg.step = "received"
        /\ registrations' =
               [registrations EXCEPT ![r] =
                   IF reg.data.name = <<>>
                      \/ (/\ reg.data.national_id # 0
                          /\ NationalIdRegistered(db_employees, reg.data.national_id))
                   THEN [reg EXCEPT !.step = "done", !.status = 400]
                   ELSE [reg EXCEPT !.step = "read",
                                    !.existing_data = ActiveEmployeeData(db_employees)]]
        /\ UNCHANGED dbVars
        /\ ConcurrentFrame

\* Lines 138-145: detect_duplicate on the population read.
DetectDuplicates(r) ==
    LET reg == registrations[r]
    IN  /\ reg.step = "read"
        /\ registrations' =
               [registrations EXCEPT ![r] =
                   [reg EXCEPT !.step = "detected",
                               !.duplicates = detect_duplicate(NewData(reg.data),
                                                               reg.existing_data)]]
        /\ UNCHANGED dbVars
        /\ ConcurrentFrame

\* Lines 147-199: the employee is added and flushed, which takes the write
\* lock and assigns the next id; the templates and the alerts are added to
\* the session.
InsertEmployeeAndAlerts(r) ==
    LET reg == registrations[r]
    IN  /\ reg.step = "detected"
        /\ \A other \in 1..MaxRequests : registrations[other].step # "inserted"
        /\ registrations' =
               [registrations EXCEPT ![r] =
                   [reg EXCEPT !.step = "inserted",
                               !.employee_id = Len(db_employees) + 1]]
        /\ UNCHANGED dbVars
        /\ ConcurrentFrame

\* Lines 201-208: the commit, and the response.
Commit(r) ==
    LET reg == registrations[r]
        employee == [id |-> reg.employee_id, name |-> reg.data.name,
                     national_id |-> reg.data.national_id,
                     biometric_hash |-> NewData(reg.data).biometric_hash,
                     status |-> "active"]
    IN  /\ reg.step = "inserted"
        /\ db_employees' = Append(db_employees, employee)
        /\ db_templates' = db_templates \o StoredTemplatesOf(reg.data, reg.employee_id)
        /\ db_alerts' = db_alerts \o NewAlerts(reg.duplicates, reg.employee_id)
        /\ db_attendance' = db_attendance
        /\ registrations' =
               [registrations EXCEPT ![r] = [reg EXCEPT !.step = "done", !.status = 201]]
        /\ ConcurrentFrame

NextConcurrent ==
    \E r \in 1..MaxRequests :
        \/ ReadActivePopulation(r)
        \/ DetectDuplicates(r)
        \/ InsertEmployeeAndAlerts(r)
        \/ Commit(r)

SpecConcurrent == InitConcurrent /\ [][NextConcurrent]_vars

---------------------------------------------------------------------------
(* Specification SpecClaims: detect_duplicate_claims on every list of      *)
(* claims                                                                  *)

InitClaims ==
    /\ FACE_RECOGNITION_AVAILABLE = TRUE
    /\ pc = "call"
    /\ benefit_claims \in BenefitClaimLists
    /\ time_window_hours \in TimeWindows
    /\ suspicious_claims = Unused
    /\ unusual_patterns = Unused /\ analyzed_employee = Unused /\ risk = Unused
    /\ IdleName /\ IdleImage /\ IdleDetect /\ IdleVerify /\ IdleGhost
    /\ IdleApp

CallDetectDuplicateClaims ==
    /\ pc = "call"
    /\ pc' = "done"
    /\ suspicious_claims' = detect_duplicate_claims(benefit_claims, time_window_hours)
    /\ UNCHANGED <<FACE_RECOGNITION_AVAILABLE, benefit_claims, time_window_hours,
                   unusual_patterns, analyzed_employee, risk, nameVars, imageVars,
                   detectVars, verifyVars, ghostVars, appVars>>

NextClaims == CallDetectDuplicateClaims

SpecClaims == InitClaims /\ [][NextClaims]_vars

---------------------------------------------------------------------------
(* Specification SpecPatterns: detect_unusual_patterns on every list of    *)
(* attendance records                                                      *)

InitPatterns ==
    /\ FACE_RECOGNITION_AVAILABLE = TRUE
    /\ pc = "call"
    /\ attendance_logs \in PatternLogs
    /\ unusual_patterns = Unused
    /\ employees = Unused /\ days_threshold = Unused /\ now = Unused
    /\ ghost_workers = Unused
    /\ benefit_claims = Unused /\ time_window_hours = Unused
    /\ suspicious_claims = Unused /\ analyzed_employee = Unused /\ risk = Unused
    /\ IdleName /\ IdleImage /\ IdleDetect /\ IdleVerify
    /\ IdleApp

CallDetectUnusualPatterns ==
    /\ pc = "call"
    /\ pc' = "done"
    /\ unusual_patterns' = detect_unusual_patterns(attendance_logs)
    /\ UNCHANGED <<FACE_RECOGNITION_AVAILABLE, ghostVars, benefit_claims,
                   time_window_hours, suspicious_claims, analyzed_employee, risk,
                   nameVars, imageVars, detectVars, verifyVars, appVars>>

NextPatterns == CallDetectUnusualPatterns

SpecPatterns == InitPatterns /\ [][NextPatterns]_vars

---------------------------------------------------------------------------
(* Specification SpecRisk: analyze_employee_risk, called on the inputs     *)
(* drawn and then again as the inputs grow and time passes.  The variable  *)
(* duplicates holds the DuplicateAlert rows handed to the function.        *)

InitRisk ==
    /\ FACE_RECOGNITION_AVAILABLE = TRUE
    /\ pc = "call"
    /\ analyzed_employee \in AnalyzedEmployees
    /\ attendance_logs \in FirstRiskLogs
    /\ benefit_claims \in FirstRiskClaims
    /\ duplicates \in FirstRiskAlerts
    /\ now = 0
    /\ risk = Unused
    /\ new_employee_data = Unused /\ existing_employees = Unused
    /\ employees = Unused /\ days_threshold = Unused /\ ghost_workers = Unused
    /\ time_window_hours = Unused /\ suspicious_claims = Unused
    /\ unusual_patterns = Unused
    /\ IdleName /\ IdleImage /\ IdleVerify
    /\ IdleApp

\* What no call of analyze_employee_risk changes.
RiskFrame ==
    UNCHANGED <<FACE_RECOGNITION_AVAILABLE, analyzed_employee, new_employee_data,
                existing_employees, employees, days_threshold, ghost_workers,
                time_window_hours, suspicious_claims, unusual_patterns, nameVars,
                imageVars, verifyVars, appVars>>

CallAnalyzeEmployeeRisk ==
    /\ pc = "call"
    /\ pc' = "done"
    /\ risk' = analyze_employee_risk(analyzed_employee, attendance_logs,
                                     benefit_claims, duplicates, now)
    /\ UNCHANGED <<attendance_logs, benefit_claims, duplicates, now>>
    /\ RiskFrame

\* The call repeated once one more alert is on file.
AnalyzeWithAlert(alert) ==
    /\ pc = "done"
    /\ Len(duplicates) < MaxAlerts
    /\ duplicates' = Append(duplicates, alert)
    /\ risk' = analyze_employee_risk(analyzed_employee, attendance_logs,
                                     benefit_claims, duplicates', now)
    /\ UNCHANGED <<pc, attendance_logs, benefit_claims, now>>
    /\ RiskFrame

\* The call repeated once one more claim is on file.
AnalyzeWithClaim(claim) ==
    /\ pc = "done"
    /\ Len(benefit_claims) < MaxRiskClaims
    /\ benefit_claims' = Append(benefit_claims, claim)
    /\ risk' = analyze_employee_risk(analyzed_employee, attendance_logs,
                                     benefit_claims', duplicates, now)
    /\ UNCHANGED <<pc, attendance_logs, duplicates, now>>
    /\ RiskFrame

\* The call repeated once one more attendance record is on file.
AnalyzeWithAttendance(log) ==
    /\ pc = "done"
    /\ Len(attendance_logs) < MaxLogs
    /\ attendance_logs' = Append(attendance_logs, log)
    /\ risk' = analyze_employee_risk(analyzed_employee, attendance_logs',
                                     benefit_claims, duplicates, now)
    /\ UNCHANGED <<pc, benefit_claims, duplicates, now>>
    /\ RiskFrame

\* The call repeated 12 hours later.
AnalyzeLater ==
    /\ pc = "done"
    /\ now < 12 * MaxClockSteps
    /\ now' = now + 12
    /\ risk' = analyze_employee_risk(analyzed_employee, attendance_logs,
                                     benefit_claims, duplicates, now')
    /\ UNCHANGED <<pc, attendance_logs, benefit_claims, duplicates>>
    /\ RiskFrame

NextRisk ==
    \/ CallAnalyzeEmployeeRisk
    \/ \E alert \in MoreRiskAlerts : AnalyzeWithAlert(alert)
    \/ \E claim \in MoreRiskClaims : AnalyzeWithClaim(claim)
    \/ \E log \in MoreRiskLogs : AnalyzeWithAttendance(log)
    \/ AnalyzeLater

SpecRisk == InitRisk /\ [][NextRisk]_vars

---------------------------------------------------------------------------
(* Claims about calculate_name_similarity, checked under SpecName *)

\* The name without its leading and trailing white space, in lower case,
\* stated directly: the part between the first and the last character that
\* is not white space.
Trimmed(s) ==
    LET keep == {i \in 1..Len(s) : s[i] # " "}
    IN  IF keep = {} THEN <<>>
        ELSE LET lo == CHOOSE i \in keep : \A k \in keep : i <= k
                 hi == CHOOSE i \in keep : \A k \in keep : i >= k
             IN  [i \in 1..(hi - lo + 1) |->
                     IF s[lo + i - 1] = "A" THEN "a" ELSE s[lo + i - 1]]

EmptyAfterTrim(s) == \A i \in 1..Len(s) : s[i] = " "

\* The unit-cost edit distance by its defining recurrence on the strings.
RECURSIVE EditDistance(_, _)
EditDistance(s, t) ==
    IF s = <<>> THEN Len(t)
    ELSE IF t = <<>> THEN Len(s)
    ELSE IF Head(s) = Head(t) THEN EditDistance(Tail(s), Tail(t))
    ELSE 1 + Min(EditDistance(Tail(s), Tail(t)),
                 Min(EditDistance(Tail(s), t), EditDistance(s, Tail(t))))

\* C5 (as claimed): calculate_name_similarity returns 0 whenever at least one
\* of the two names is empty after trimming, also when both are.
C5_EmptyNameScoresZero ==
    (pc = "done" /\ (EmptyAfterTrim(name1) \/ EmptyAfterTrim(name2)))
        => name_sim = Rat(0, 1)

\* C6: for every pair of names (not both empty after trimming, where the
\* quotient is undefined) the result is
\* (max(len1,len2) - d) / max(len1,len2) * 100 with d the unit-cost edit
\* distance of the lowercased, trimmed names; names equal up to case and
\* surrounding white space score 100; the result lies in [0, 100].
C6_NameSimilarityIsLevenshtein ==
    (pc = "done" /\ ~(EmptyAfterTrim(name1) /\ EmptyAfterTrim(name2))) =>
        LET a == Trimmed(name1)
            b == Trimmed(name2)
            m == Max(Len(a), Len(b))
        IN  /\ name_sim = Rat((m - EditDistance(a, b)) * 100, m)
            /\ (a = b => name_sim = Rat(100, 1))
            /\ RatLE(Rat(0, 1), name_sim)
            /\ RatLE(name_sim, Rat(100, 1))

\* A call on two different non-empty names of different lengths with a score
\* strictly between 0 and 100.
C6_Witness ==
    /\ pc = "done"
    /\ ~EmptyAfterTrim(name1) /\ ~EmptyAfterTrim(name2)
    /\ Trimmed(name1) # Trimmed(name2)
    /\ name1 # Trimmed(name1)
    /\ RatLT(Rat(0, 1), name_sim) /\ RatLT(name_sim, Rat(100, 1))

\* C7: name similarity is symmetric: the result of the call on (name1, name2)
\* is the result of the call on (name2, name1).
C7_NameSimilaritySymmetric ==
    pc = "done" => name_sim = calculate_name_similarity(name2, name1)

\* A call on two names of different lengths after trimming, neither empty,
\* that are not equal.
C7_Witness ==
    /\ pc = "done"
    /\ Len(Trimmed(name1)) < Len(Trimmed(name2))
    /\ Len(Trimmed(name1)) > 0
    /\ RatLT(Rat(0, 1), name_sim) /\ RatLT(name_sim, Rat(100, 1))

---------------------------------------------------------------------------
(* Claims about calculate_image_similarity, checked under SpecImage *)

\* The Euclidean distance of two encodings, in hundredths: the number whose
\* square is the sum of the squared coordinate differences.
Distance(u, v) ==
    LET sq == SumSquares(u, v)
    IN  CHOOSE r \in 0..sq : r * r = sq

---------------------------------------------------------------------------
(* Claims about detect_duplicate, checked under SpecDetect *)

NationalIdHit(new, e) ==
    new.national_id # 0 /\ e.national_id # 0 /\ new.national_id = e.national_id
NameHit(new, e) ==
    /\ new.name # <<>> /\ e.name # <<>>
    /\ RatGT(calculate_name_similarity(new.name, e.name), Rat(80, 1))
BiometricHit(new, e) ==
    /\ Truthy(new.biometric_hash) /\ Truthy(e.biometric_hash)
    /\ RatGT(calculate_image_similarity(new.biometric_hash, e.biometric_hash),
             Rat(IF FACE_RECOGNITION_AVAILABLE THEN 85 ELSE 99, 1))

\* The names of the factors that hit, in the order the code tries them.
HitFactors(new, e) ==
    (IF NationalIdHit(new, e) THEN <<"national_id">> ELSE <<>>)
    \o (IF NameHit(new, e) THEN <<"name">> ELSE <<>>)
    \o (IF BiometricHit(new, e) THEN <<"facial_recognition">> ELSE <<>>)

\* The positions of the result that report the existing record e.
ReportsOf(e) == {k \in 1..Len(duplicates) : duplicates[k].employee = e}

\* C1: an existing record is reported if and only if at least one of the three
\* factors hits for it, once; every reported duplicate carries a non-empty
\* matching_factors list naming exactly the factors that hit.
C1_ReportedIffFactorHits ==
    pc = "done" =>
        /\ \A i \in 1..Len(existing_employees) :
              LET e == existing_employees[i]
              IN  Cardinality(ReportsOf(e)) =
                      (IF HitFactors(new_employee_data, e) # <<>> THEN 1 ELSE 0)
        /\ \A k \in 1..Len(duplicates) :
              /\ duplicates[k].matching_factors # <<>>
              /\ duplicates[k].matching_factors =
                     HitFactors(new_employee_data, duplicates[k].employee)
              /\ \E i \in 1..Len(existing_employees) :
                     duplicates[k].employee = existing_employees[i]

\* A call on a population of two where one record is reported with two
\* factors and the other is not reported.
C1_Witness ==
    /\ pc = "done"
    /\ Len(existing_employees) = 2
    /\ Len(duplicates) = 1
    /\ Len(duplicates[1].matching_factors) = 2

\* C3 (as claimed): in vector mode a pair of vector templates is accepted (the
\* biometric factor hits in detect_duplicate) if and only if their distance is
\* below 0.6.
C3_AcceptedIffDistanceBelow06 ==
    (pc = "done" /\ FACE_RECOGNITION_AVAILABLE) =>
        \A i \in 1..Len(existing_employees) :
            LET e == existing_employees[i]
                t == new_employee_data.biometric_hash
            IN  (t \in VecTemplates /\ e.biometric_hash \in VecTemplates) =>
                    ((\E k \in ReportsOf(e) :
                         \E f \in 1..Len(duplicates[k].matching_factors) :
                             duplicates[k].matching_factors[f] = "facial_recognition")
                     <=> Distance(t.v, e.biometric_hash.v) < 60)

\* The result's entry for the existing record e (C1: there is one at most).
ReportOf(e) == duplicates[CHOOSE k \in 1..Len(duplicates) : duplicates[k].employee = e]

\* C17: the name factor hits if and only if both names are present and their
\* name similarity is strictly greater than 80; a record reported for its name
\* alone carries that similarity as its score, not 100.
C17_NameHitsStrictlyAbove80 ==
    pc = "done" =>
        \A i \in 1..Len(existing_employees) :
            LET e == existing_employees[i]
                similarity == calculate_name_similarity(new_employee_data.name, e.name)
                hit == /\ new_employee_data.name # <<>>
                       /\ e.name # <<>>
                       /\ RatGT(similarity, Rat(80, 1))
            IN  /\ hit <=> /\ ReportsOf(e) # {}
                           /\ \E f \in 1..Len(ReportOf(e).matching_factors) :
                                  ReportOf(e).matching_factors[f] = "name"
                /\ (ReportsOf(e) # {} /\ ReportOf(e).matching_factors = <<"name">>)
                       => ReportOf(e).similarity_score = similarity

\* One candidate against two records: the name similarity is exactly 80 with
\* the first, which is not reported, and 83.33 with the second, which is
\* reported for its name alone with that score.
C17_Witness ==
    /\ pc = "done"
    /\ Len(existing_employees) = 2
    /\ calculate_name_similarity(new_employee_data.name, existing_employees[1].name)
           = Rat(80, 1)
    /\ ReportsOf(existing_employees[1]) = {}
    /\ Len(duplicates) = 1
    /\ duplicates[1].employee = existing_employees[2]
    /\ duplicates[1].matching_factors = <<"name">>
    /\ duplicates[1].similarity_score = Rat(250, 3)

\* The score of a factor that hit: 100 for the national ID, the name
\* similarity for the name, the biometric similarity for the template.
FactorScore(new, e, factor) ==
    IF factor = "national_id" THEN Rat(100, 1)
    ELSE IF factor = "name" THEN calculate_name_similarity(new.name, e.name)
    ELSE calculate_image_similarity(new.biometric_hash, e.biometric_hash)

\* C18: the overall similarity_score of every reported duplicate is the
\* unweighted mean of the scores of exactly the factors that hit: the score
\* times the number of hits is the sum of their scores.
C18_ScoreIsMeanOfHits ==
    pc = "done" =>
        \A k \in 1..Len(duplicates) :
            LET d == duplicates[k]
                hits == HitFactors(new_employee_data, d.employee)
                total == SumScores([f \in 1..Len(hits) |->
                             [score |-> FactorScore(new_employee_data, d.employee,
                                                    hits[f])]])
            IN  /\ Len(hits) > 0
                /\ d.similarity_score.num * total.den * Len(hits)
                       = total.num * d.similarity_score.den

\* A duplicate reported for two factors of different scores, the national ID
\* (100) and the name (83.33): its score is their mean, 91.67.
C18_Witness ==
    /\ pc = "done"
    /\ \E k \in 1..Len(duplicates) :
           /\ duplicates[k].matching_factors = <<"national_id", "name">>
           /\ duplicates[k].similarity_score = Rat(275, 3)

\* C19: the result is ordered by overall score descending, and reported
\* records of equal score keep their order in the population.
C19_SortedByScoreDescending ==
    pc = "done" =>
        \A i, j \in 1..Len(duplicates) :
            i < j =>
                /\ RatLE(duplicates[j].similarity_score, duplicates[i].similarity_score)
                /\ duplicates[i].similarity_score = duplicates[j].similarity_score
                       => duplicates[i].employee.id < duplicates[j].employee.id

\* The second record of the population is reported first, with the higher
\* score.
C19_Witness ==
    /\ pc = "done"
    /\ Len(duplicates) = 2
    /\ duplicates[1].employee.id = 2
    /\ RatGT(duplicates[1].similarity_score, duplicates[2].similarity_score)

---------------------------------------------------------------------------
(* Claims about verify_biometric, checked under SpecVerify *)

HasKey(d, k) == k \in DOMAIN d

\* The two hashes compare equal: both absent, or both present and the same.
SameHash(submitted, stored) ==
    \/ ~HasKey(submitted, "hash") /\ ~HasKey(stored, "hash")
    \/ ~HasKey(submitted, "hash") /\ HasKey(stored, "hash") /\ stored.hash = NoTemplate
    \/ HasKey(submitted, "hash") /\ HasKey(stored, "hash")
           /\ submitted.hash = stored.hash

\* C8: a fingerprint submission yields exactly {match: true, confidence: 95}
\* when the submitted hash equals the stored template's hash and exactly
\* {match: false, confidence: 0} otherwise.
C8_FingerprintAllOrNothing ==
    (pc = "done" /\ submitted_data.type = "fingerprint") =>
        IF SameHash(submitted_data, stored_template)
        THEN verify_result = [match |-> TRUE, confidence |-> Rat(95, 1)]
        ELSE verify_result = [match |-> FALSE, confidence |-> Rat(0, 1)]

\* A fingerprint submission carrying a hash that differs from the stored one.
C8_Witness ==
    /\ pc = "done"
    /\ submitted_data.type = "fingerprint"
    /\ HasKey(submitted_data, "hash") /\ HasKey(stored_template, "hash")
    /\ stored_template.hash.kind = "hash"
    /\ submitted_data.hash # stored_template.hash
    /\ verify_result = [match |-> FALSE, confidence |-> Rat(0, 1)]

\* C9: for a facial submission whose image yields a template, the confidence
\* is the raw similarity between the fresh template and the stored template's
\* hash, and match holds iff that similarity strictly exceeds the active
\* threshold (85 in vector mode, 99 in hash-fallback mode).
C9_FacialConfidenceIsSimilarity ==
    (/\ pc = "done"
     /\ submitted_data.type = "facial"
     /\ HasKey(submitted_data, "photo_data")
     /\ Truthy(image_to_hash(submitted_data.photo_data))) =>
        LET fresh == image_to_hash(submitted_data.photo_data)
            raw == calculate_image_similarity(fresh, Get(stored_template, "hash"))
        IN  /\ verify_result.confidence = raw
            /\ verify_result.match <=>
                   RatGT(raw, Rat(IF FACE_RECOGNITION_AVAILABLE THEN 85 ELSE 99, 1))

\* A facial submission that does not match and carries a non-zero confidence.
C9_Witness ==
    /\ pc = "done"
    /\ submitted_data.type = "facial"
    /\ HasKey(submitted_data, "photo_data")
    /\ Truthy(image_to_hash(submitted_data.photo_data))
    /\ ~verify_result.match
    /\ RatGT(verify_result.confidence, Rat(0, 1))

\* The submission or the stored template lacks what the comparison needs: a
\* fingerprint submission without a hash or a stored template without one; a
\* facial submission without a photo, with a photo that does not decode or
\* yields no template, or against a stored template whose hash is absent or,
\* in vector mode, not a vector; a submission of another type.
AbsentOrMalformed(submitted, stored) ==
    \/ /\ submitted.type = "fingerprint"
       /\ \/ ~HasKey(submitted, "hash")
          \/ ~Truthy(Get(stored, "hash"))
    \/ /\ submitted.type = "facial"
       /\ \/ ~HasKey(submitted, "photo_data")
          \/ ~submitted.photo_data.decodes
          \/ ~Truthy(image_to_hash(submitted.photo_data))
          \/ ~Truthy(Get(stored, "hash"))
          \/ FACE_RECOGNITION_AVAILABLE /\ Get(stored, "hash").kind # "vec"
    \/ submitted.type \notin {"fingerprint", "facial"}

\* C16 (as claimed): for an absent, undecodable or malformed input,
\* image_to_hash returns an absent template, calculate_image_similarity
\* returns 0 when either template is absent or, in vector mode, the stored one
\* is not a vector, and verify_biometric returns {match: false, confidence: 0}.
C16_AbsentInputNeverMatches ==
    pc = "done" =>
        /\ (HasKey(submitted_data, "photo_data") /\ ~submitted_data.photo_data.decodes)
               => image_to_hash(submitted_data.photo_data) = NoTemplate
        /\ \A fresh \in {NoTemplate, EmptyTemplate, VecTemplate(<<0, 0>>)} :
               (\/ ~Truthy(fresh)
                \/ ~Truthy(Get(stored_template, "hash"))
                \/ FACE_RECOGNITION_AVAILABLE /\ Get(stored_template, "hash").kind # "vec")
                   => calculate_image_similarity(fresh, Get(stored_template, "hash"))
                          = Rat(0, 1)
        /\ AbsentOrMalformed(submitted_data, stored_template)
               => verify_result = [match |-> FALSE, confidence |-> Rat(0, 1)]

---------------------------------------------------------------------------
(* Claims about detect_ghost_workers, checked under SpecGhost *)

\* The check-in times of the employee's attendance records.
CheckInsOf(id) ==
    {attendance_logs[i].check_in_time :
        i \in {k \in 1..Len(attendance_logs) : attendance_logs[k].employee_id = id}}

FindingsFor(e) == {k \in 1..Len(ghost_workers) : ghost_workers[k].employee = e}

\* C10: with a fixed 'now', a subject is flagged (once) if and only if it is
\* active, registered strictly before now - days_threshold, and either has no
\* attendance record (reason 'No attendance records') or has its most recent
\* attendance strictly before the cutoff (reason 'No attendance in N days');
\* a subject registered within the threshold window is never flagged.
C10_GhostWorkerRule ==
    pc = "done" =>
        \A i \in 1..Len(employees) :
            LET e == employees[i]
                cutoff == now - days_threshold
                stale == \A t \in CheckInsOf(e.id) : t < cutoff
                flagged == /\ e.status = "active"
                           /\ e.registration_date < cutoff
                           /\ stale
            IN  /\ Cardinality(FindingsFor(e)) = (IF flagged THEN 1 ELSE 0)
                /\ \A k \in FindingsFor(e) :
                       ghost_workers[k].reason =
                           (IF CheckInsOf(e.id) = {}
                            THEN <<"No attendance records">>
                            ELSE <<"No attendance in", days_threshold, "days">>)
                /\ (now - e.registration_date <= days_threshold) => FindingsFor(e) = {}

\* Under the 30-day default: the subject registered 40 days ago with no
\* attendance is flagged with 'No attendance records', the one registered 5
\* days ago with no attendance is not flagged.
C10_Witness ==
    /\ pc = "done"
    /\ days_threshold = 30
    /\ attendance_logs = <<>>
    /\ employees[1].status = "active" /\ now - employees[1].registration_date = 40
    /\ employees[2].status = "active" /\ now - employees[2].registration_date = 5
    /\ Len(ghost_workers) = 1
    /\ ghost_workers[1].employee = employees[1]
    /\ ghost_workers[1].reason = <<"No attendance records">>

---------------------------------------------------------------------------
(* Claims about register_employee, checked under Spec *)

\* The rows of Employee that were there before the last registration request.
RowsBeforeRequest ==
    IF response.status = 201
    THEN SubSeq(db_employees, 1, response.employee.id - 1)
    ELSE db_employees

\* C2 (as claimed): end to end, when a candidate is submitted whose non-empty
\* national ID equals that of an existing record, while their names are not
\* similar (similarity <= 80) and their templates do not match, the existing
\* record is reported as a duplicate with the single matching factor
\* national_id and overall score exactly 100.
C2_SameNationalIdReportedAt100 ==
    (pc = "register_employee" /\ request.name # <<>> /\ request.national_id # 0) =>
        \A i \in 1..Len(RowsBeforeRequest) :
            LET e == RowsBeforeRequest[i]
                candidate == [name |-> request.name,
                              national_id |-> request.national_id,
                              biometric_hash |-> RequestTemplate(request)]
            IN  (/\ e.status = "active"
                 /\ e.national_id = request.national_id
                 /\ ~NameHit(candidate, e)
                 /\ ~BiometricHit(candidate, e)) =>
                    /\ response.status = 201
                    /\ \E k \in 1..Len(db_alerts) :
                           /\ db_alerts[k].employee_id_1 = response.employee.id
                           /\ db_alerts[k].employee_id_2 = e.id
                           /\ db_alerts[k].matching_factors = <<"national_id">>
                           /\ db_alerts[k].similarity_score = Rat(100, 1)

\* The DuplicateAlert rows the last registration created.
AlertsOfRequest ==
    {k \in 1..Len(db_alerts) : db_alerts[k].employee_id_1 = response.employee.id}

\* The request passes the validation of register_employee: it has a name and
\* its national ID, if any, is not registered yet.
AcceptableRequest ==
    /\ request.name # <<>>
    /\ request.national_id # 0 =>
           \A i \in 1..Len(RowsBeforeRequest) :
               RowsBeforeRequest[i].national_id # request.national_id

\* C15: a registration that passes validation succeeds and creates the
\* employee, whether or not alerts are raised; it creates one DuplicateAlert
\* linking the new employee to an existing one if and only if detect_duplicate
\* reported that existing employee with an overall score strictly above 80,
\* and no other alert.
C15_AlertIffReportedAbove80 ==
    pc = "register_employee" =>
        /\ AcceptableRequest => response.status = 201
        /\ response.status = 201 =>
              /\ db_employees[Len(db_employees)] = response.employee
              /\ response.employee.name = request.name
              /\ \A i \in 1..Len(RowsBeforeRequest) :
                    LET e == RowsBeforeRequest[i]
                    IN  Cardinality({k \in AlertsOfRequest :
                                        db_alerts[k].employee_id_2 = e.id})
                            = (IF \E j \in 1..Len(duplicates) :
                                      /\ duplicates[j].employee.id = e.id
                                      /\ RatGT(duplicates[j].similarity_score,
                                               Rat(80, 1))
                               THEN 1 ELSE 0)
              /\ \A k \in AlertsOfRequest :
                    \E i \in 1..Len(RowsBeforeRequest) :
                        RowsBeforeRequest[i].id = db_alerts[k].employee_id_2

\* A registration that succeeded and raised an alert on a duplicate reported
\* with a score between 80 and 90.
C15_Witness ==
    /\ pc = "register_employee"
    /\ response.status = 201
    /\ Cardinality(AlertsOfRequest) = 1
    /\ Len(duplicates) = 1
    /\ RatGT(duplicates[1].similarity_score, Rat(80, 1))
    /\ RatLT(duplicates[1].similarity_score, Rat(90, 1))

\* C21: every duplicate that detect_duplicate reports to a registration has
\* an overall score strictly above 80, so the alert threshold of
\* register_employee filters nothing out: the registration creates one alert
\* per reported duplicate, with the duplicate's employee, score and factors,
\* and answers with as many alerts as duplicates were reported.
C21_EveryReportedDuplicateAlerted ==
    (pc = "register_employee" /\ response.status = 201) =>
        /\ \A j \in 1..Len(duplicates) :
               RatGT(duplicates[j].similarity_score, Rat(80, 1))
        /\ Cardinality(AlertsOfRequest) = Len(duplicates)
        /\ response.duplicates_found = Len(duplicates)
        /\ \A j \in 1..Len(duplicates) :
               \E k \in AlertsOfRequest :
                   /\ db_alerts[k].employee_id_2 = duplicates[j].employee.id
                   /\ db_alerts[k].similarity_score = duplicates[j].similarity_score
                   /\ db_alerts[k].matching_factors = duplicates[j].matching_factors

\* A registration whose duplicate hit on the name and on the face with a mean
\* below 90, and was alerted.
C21_Witness ==
    /\ pc = "register_employee"
    /\ response.status = 201
    /\ Len(duplicates) = 1
    /\ duplicates[1].matching_factors = <<"name", "facial_recognition">>
    /\ RatLT(duplicates[1].similarity_score, Rat(90, 1))
    /\ \E k \in AlertsOfRequest :
           db_alerts[k].similarity_score = duplicates[1].similarity_score

---------------------------------------------------------------------------
(* Claims about detect_duplicate_claims, checked under SpecClaims *)

\* The positions in benefit_claims of the subject's claims.
ClaimsOfSubject(s) ==
    {i \in 1..Len(benefit_claims) : benefit_claims[i].employee_id = s}

\* The date-ascending orders of the subject's claims: every way to line them
\* up, each once, with no claim before an earlier one.
AscendingOrders(s) ==
    LET k == Cardinality(ClaimsOfSubject(s))
    IN  {o \in [1..k -> ClaimsOfSubject(s)] :
            /\ \A i, j \in 1..k : i # j => o[i] # o[j]
            /\ \A i, j \in 1..k :
                  i < j => benefit_claims[o[i]].claim_date
                               <= benefit_claims[o[j]].claim_date}

\* The pairs adjacent in the order o whose gap is strictly under the window.
ViolatingPairs(o) ==
    {<<benefit_claims[o[i]], benefit_claims[o[i + 1]]>> :
        i \in {n \in 1..(Len(o) - 1) :
                  benefit_claims[o[n + 1]].claim_date
                      - benefit_claims[o[n]].claim_date < time_window_hours}}

\* The positions of the result that are findings about the subject.
ClaimFindingsOf(s) ==
    {k \in 1..Len(suspicious_claims) : suspicious_claims[k].employee_id = s}

\* C11: for every subject, the findings are, one each, the pairs of its claims
\* that are adjacent in its date-ascending order and whose gap is strictly
\* under the window, and there are no other findings: every finding pairs two
\* claims of its own subject and carries their gap.
C11_OneFindingPerAdjacentPair ==
    pc = "done" =>
        /\ \A s \in {1, 2} :
              \E o \in AscendingOrders(s) :
                  /\ {suspicious_claims[k].claims : k \in ClaimFindingsOf(s)}
                         = ViolatingPairs(o)
                  /\ Cardinality(ClaimFindingsOf(s)) = Cardinality(ViolatingPairs(o))
        /\ \A k \in 1..Len(suspicious_claims) :
              LET f == suspicious_claims[k]
              IN  /\ f.claims[1].employee_id = f.employee_id
                  /\ f.claims[2].employee_id = f.employee_id
                  /\ f.time_difference_hours
                         = f.claims[2].claim_date - f.claims[1].claim_date
                  /\ f.time_difference_hours < time_window_hours

\* Under the 24-hour window: a chain of three claims of one subject, the
\* first two 23 hours apart, yields two findings.
C11_Witness ==
    /\ pc = "done"
    /\ time_window_hours = 24
    /\ Len(benefit_claims) = 3
    /\ \A i \in 1..3 : benefit_claims[i].employee_id = 1
    /\ Len(suspicious_claims) = 2
    /\ \E k \in 1..2 : suspicious_claims[k].time_difference_hours = 23

---------------------------------------------------------------------------
(* Claims about detect_unusual_patterns, checked under SpecPatterns *)

\* The number of findings of the given type about the record.
PatternCount(log, type) ==
    Cardinality({k \in 1..Len(unusual_patterns) :
                    unusual_patterns[k].log = log /\ unusual_patterns[k].type = type})

\* C12 (as claimed): every attendance record has a weekend_checkin finding iff
\* it was checked in on Saturday or Sunday, an unusual_hour finding iff its
\* hour is below 5, and, when it carries a confidence score, a low_confidence
\* finding iff that score is below 70, a score of 0 included; each rule
\* yields one finding at most.
C12_ThreeIndependentRules ==
    pc = "done" =>
        \A i \in 1..Len(attendance_logs) :
            LET log == attendance_logs[i]
            IN  /\ PatternCount(log, "weekend_checkin") =
                       (IF log.check_in_time.weekday \in {5, 6} THEN 1 ELSE 0)
                /\ PatternCount(log, "unusual_hour") =
                       (IF log.check_in_time.hour < 5 THEN 1 ELSE 0)
                /\ log.confidence_score # NoScore =>
                       PatternCount(log, "low_confidence") =
                           (IF RatLT(log.confidence_score, Rat(70, 1)) THEN 1 ELSE 0)

---------------------------------------------------------------------------
(* Claims about analyze_employee_risk, checked under SpecRisk *)

\* The whole days in a number of hours.
WholeDays(hours) == CHOOSE d \in 0..hours : d * 24 <= hours /\ hours < (d + 1) * 24

\* The four signals, each stated on the inputs of the last call.
HasPendingAlert(emp, alerts) ==
    \E k \in 1..Len(alerts) :
        /\ alerts[k].status = "pending"
        /\ emp.id \in {alerts[k].employee_id_1, alerts[k].employee_id_2}
NeverAttended(emp, logs, today) ==
    /\ emp.status = "active"
    /\ \A k \in 1..Len(logs) : logs[k].employee_id # emp.id
    /\ WholeDays(today - emp.registration_date) > 7
HasUnverifiedClaim(emp, claims) ==
    \E k \in 1..Len(claims) :
        claims[k].employee_id = emp.id /\ ~claims[k].verified_by_biometric
HasManyClaims(emp, claims) ==
    Cardinality({k \in 1..Len(claims) : claims[k].employee_id = emp.id}) > 5

\* The signals that qualify, by name.
QualifyingSignals(emp, logs, claims, alerts, today) ==
    (IF HasPendingAlert(emp, alerts) THEN {"pending_alert"} ELSE {})
    \cup (IF NeverAttended(emp, logs, today) THEN {"never_attended"} ELSE {})
    \cup (IF HasUnverifiedClaim(emp, claims) THEN {"unverified_claim"} ELSE {})
    \cup (IF HasManyClaims(emp, claims) THEN {"many_claims"} ELSE {})

\* The flat additive score of a set of qualifying signals.
FlatScore(signals) ==
    Min(100, (IF "pending_alert" \in signals THEN 40 ELSE 0)
             + (IF "never_attended" \in signals THEN 30 ELSE 0)
             + (IF "unverified_claim" \in signals THEN 20 ELSE 0)
             + (IF "many_claims" \in signals THEN 10 ELSE 0))

\* C13: risk_score is min(100, 40*[the subject has a pending duplicate alert
\* naming it on either side] + 30*[it is active, has no attendance record and
\* more than 7 whole days have passed since its registration] + 20*[it has a
\* benefit claim not verified by biometric] + 10*[it has more than 5 claims]),
\* each weight counted once, with one risk_factors entry per counted weight;
\* risk_level is critical from 70, high from 40, medium from 20, else low.
C13_FlatAdditiveRisk ==
    pc = "done" =>
        LET signals == QualifyingSignals(analyzed_employee, attendance_logs,
                                         benefit_claims, duplicates, now)
        IN  /\ risk.employee_id = analyzed_employee.id
            /\ risk.risk_score = FlatScore(signals)
            /\ Len(risk.risk_factors) = Cardinality(signals)
            /\ risk.risk_level =
                   (IF risk.risk_score >= 70 THEN "critical"
                    ELSE IF risk.risk_score >= 40 THEN "high"
                    ELSE IF risk.risk_score >= 20 THEN "medium"
                    ELSE "low")

\* Two pending alerts naming the subject and two unverified claims of it count
\* 40 and 20 once each: score 60, level high.
C13_Witness ==
    /\ pc = "done"
    /\ Len(PendingDuplicates(analyzed_employee, duplicates)) = 2
    /\ Len(UnverifiedClaims(analyzed_employee, benefit_claims)) = 2
    /\ risk.risk_score = 60
    /\ risk.risk_level = "high"

\* C14: from one call to the next on inputs where every signal that qualified
\* still qualifies (an alert, a claim or 12 hours added), the score does not
\* decrease and neither does the number of risk_factors; the score is always
\* within 0..100.
C14_RiskMonotonicBounded ==
    [][(pc = "done" /\ pc' = "done") =>
          /\ risk.risk_score \in 0..100
          /\ risk'.risk_score \in 0..100
          /\ QualifyingSignals(analyzed_employee, attendance_logs, benefit_claims,
                               duplicates, now)
                 \subseteq QualifyingSignals(analyzed_employee', attendance_logs',
                                             benefit_claims', duplicates', now')
             => /\ risk'.risk_score >= risk.risk_score
                /\ Len(risk'.risk_factors) >= Len(risk.risk_factors)]_vars

\* All four signals qualify: the score has grown to its cap of 100.
C14_Witness ==
    /\ pc = "done"
    /\ QualifyingSignals(analyzed_employee, attendance_logs, benefit_claims,
                         duplicates, now)
           = {"pending_alert", "never_attended", "unverified_claim", "many_claims"}
    /\ risk.risk_score = 100
    /\ Len(risk.risk_factors) = 4

---------------------------------------------------------------------------
(* Claims about check_in, checked under SpecAttendance *)

\* The confidence verification gives the submission of a check-in request
\* against the subject's stored templates.
VerificationConfidence(data) ==
    BestResult(data.biometric_data, TemplatesOf(db_templates, data.employee_id)).confidence

\* C23 (as claimed): every check-in for an existing employee appends exactly
\* one attendance log for that employee, whatever verification says; the
\* log's confidence score is the confidence of the verification when
\* biometric data was submitted, and 100 when none was.
C23_CheckInLogsVerificationConfidence ==
    [][(pc' = "check_in" /\ EmployeeExists(db_employees, request'.employee_id)) =>
          /\ Len(db_attendance') = Len(db_attendance) + 1
          /\ SubSeq(db_attendance', 1, Len(db_attendance)) = db_attendance
          /\ LET log == db_attendance'[Len(db_attendance')]
             IN  /\ log.employee_id = request'.employee_id
                 /\ response'.status = 201
                 /\ response'.log = log
                 /\ log.confidence_score =
                        IF request'.biometric_data = NoData
                        THEN Rat(100, 1)
                        ELSE VerificationConfidence(request')]_vars

---------------------------------------------------------------------------
(* Claims about concurrent registrations, checked under SpecConcurrent *)

\* A DuplicateAlert links the employees with ids a and b.
AlertLinks(a, b) ==
    \E k \in 1..Len(db_alerts) :
        \/ db_alerts[k].employee_id_1 = a /\ db_alerts[k].employee_id_2 = b
        \/ db_alerts[k].employee_id_1 = b /\ db_alerts[k].employee_id_2 = a

\* C24 (as claimed): once two registration requests without national IDs,
\* whose names are more than 80% similar, have both completed successfully,
\* at least one DuplicateAlert links the two employees they created,
\* whatever the interleaving of the two requests' steps.
C24_ConcurrentDuplicatesAlerted ==
    \A r1, r2 \in 1..MaxRequests :
        (/\ r1 # r2
         /\ registrations[r1].step = "done" /\ registrations[r1].status = 201
         /\ registrations[r2].step = "done" /\ registrations[r2].status = 201
         /\ registrations[r1].data.national_id = 0
         /\ registrations[r2].data.national_id = 0
         /\ RatGT(calculate_name_similarity(registrations[r1].data.name,
                                            registrations[r2].data.name),
                  Rat(80, 1))) =>
            AlertLinks(registrations[r1].employee_id, registrations[r2].employee_id)

---------------------------------------------------------------------------
(* Claims about verify_identity, checked under Spec *)

\* The subject's stored templates at the positions they have in the table,
\* lowest first.
TemplatePositions ==
    {k \in 1..Len(db_templates) : db_templates[k].employee_id = request.employee_id}

\* What verify_biometric gives for the submission against the template at
\* position k.
ResultAt(k) == verify_biometric(request.biometric_data, db_templates[k].template_data)

\* C20 (as claimed): for a registered subject and a submission, verify_identity
\* answers with the result of the stored template of highest confidence, the
\* first one encountered among several of that confidence, and with
\* {match: false, confidence: 0} when the subject has no template or every
\* result has confidence 0.
C20_BestOfStoredTemplates ==
    (/\ pc = "verify_identity"
     /\ request.employee_id # 0
     /\ request.biometric_data # NoData
     /\ EmployeeExists(db_employees, request.employee_id)) =>
        /\ response.status = 200
        /\ IF \A k \in TemplatePositions : ResultAt(k).confidence = Rat(0, 1)
           THEN response.verified = FALSE /\ response.confidence = Rat(0, 1)
           ELSE LET best == CHOOSE k \in TemplatePositions :
                                /\ \A other \in TemplatePositions :
                                       RatLE(ResultAt(other).confidence,
                                             ResultAt(k).confidence)
                                /\ \A other \in TemplatePositions :
                                       other < k =>
                                           RatLT(ResultAt(other).confidence,
                                                 ResultAt(k).confidence)
                IN  /\ response.verified = ResultAt(best).match
                    /\ response.confidence = ResultAt(best).confidence

\* C22 (as claimed): a fingerprint submission that carries no hash matches no
\* stored template of the subject, whatever the template holds: each
\* comparison gives {match: false, confidence: 0}, and verify_identity answers
\* that the subject is not verified.
C22_HashlessFingerprintNeverVerified ==
    (/\ pc = "verify_identity"
     /\ request.employee_id # 0
     /\ request.biometric_data # NoData
     /\ request.biometric_data.type = "fingerprint"
     /\ ~HasKey(request.biometric_data, "hash")
     /\ EmployeeExists(db_employees, request.employee_id)) =>
        /\ \A k \in TemplatePositions : ResultAt(k) = NoMatch
        /\ response.status = 200
        /\ response.verified = FALSE
        /\ response.confidence = Rat(0, 1)

===========================================================================
